---- MODULE Spec2Model ----
(***************************************************************************)
(* Wright Lab inventory tools: the record reconciliation engine.           *)
(*                                                                         *)
(*   - InventoryManagerBase.clean_dataframe   (inventory_helper.py)        *)
(*   - dataAddWindows.add_data / remove_data  (window_configure_helper.py) *)
(*   - DriveManager.download_file/upload_file (data_helper.py)             *)
(*   - ExcelHelper.update_single_sheet / create_df (data_helper.py)        *)
(*                                                                         *)
(* Text is a sequence of one-character strings, so that strip, upper,      *)
(* split, int() and the regular expression act on characters as the        *)
(* Python code does.  A spreadsheet / DataFrame cell is a tagged record.   *)
(***************************************************************************)
EXTENDS Integers, Sequences, FiniteSets, TLC

(***************************************************************************)
(* Bounds of the model.                                                    *)
(***************************************************************************)
\* most rows the in-memory RecordSet may hold (guards the add)
MaxRows == 2
\* most rows of a raw table handed to clean_dataframe on its own
MaxRawRows == 1
\* most modifications other users make to a remote file
MaxExternal == 1
\* largest modifiedTime a remote file reaches when DriveManager is driven on
\* its own
MaxToken == 3

(***************************************************************************)
(* Characters and text.                                                    *)
(***************************************************************************)
DigitChars == <<"0", "1", "2", "3", "4", "5", "6", "7", "8", "9">>

\* code-point order of the characters the model uses (str comparison)
CharOrder ==
  <<" ", "+", ",", "-", ".", "/", "0", "1", "2", "3", "4", "5", "6", "7", "8",
    "9", ":", "A", "B", "E", "N", "O", "X", "a", "b", "e", "n", "o", "x">>

IsDigit(c) == \E i \in 1..Len(DigitChars) : DigitChars[i] = c

DigitVal(c) == (CHOOSE i \in 1..Len(DigitChars) : DigitChars[i] = c) - 1

\* [A-Za-z]
IsLetter(c) == c \in {"A", "B", "E", "N", "O", "X", "a", "b", "e", "n", "o", "x"}

\* str.isspace() on the characters of the model
IsSpace(c) == c = " "

\* str.upper() on one character
UpChar(c) ==
  CASE c = "a" -> "A"
    [] c = "b" -> "B"
    [] c = "n" -> "N"
    [] c = "x" -> "X"
    [] c = "o" -> "O"
    [] c = "e" -> "E"
    [] OTHER -> c

\* str.upper()
Upper(s) == [i \in 1..Len(s) |-> UpChar(s[i])]

RECURSIVE LStrip(_)
LStrip(s) == IF s # <<>> /\ IsSpace(Head(s)) THEN LStrip(Tail(s)) ELSE s

RECURSIVE RStrip(_)
RStrip(s) ==
  IF s # <<>> /\ IsSpace(s[Len(s)]) THEN RStrip(SubSeq(s, 1, Len(s) - 1)) ELSE s

\* str.strip()
Strip(s) == RStrip(LStrip(s))

\* str.split(sep) for a one-character separator
RECURSIVE Split(_, _)
Split(s, sep) ==
  IF \A i \in 1..Len(s) : s[i] # sep
  THEN <<s>>
  ELSE LET k == CHOOSE i \in 1..Len(s) :
                  s[i] = sep /\ \A j \in 1..(i - 1) : s[j] # sep
       IN <<SubSeq(s, 1, k - 1)>> \o Split(SubSeq(s, k + 1, Len(s)), sep)

\* ", ".join(parts)
RECURSIVE Join(_)
Join(parts) ==
  IF parts = <<>> THEN <<>>
  ELSE IF Len(parts) = 1 THEN parts[1]
  ELSE parts[1] \o <<",", " ">> \o Join(Tail(parts))

AllDigits(s) == s # <<>> /\ \A i \in 1..Len(s) : IsDigit(s[i])

RECURSIVE NatOf(_)
NatOf(s) == IF s = <<>> THEN 0 ELSE 10 * NatOf(SubSeq(s, 1, Len(s) - 1)) + DigitVal(s[Len(s)])

RECURSIVE StrOfNat(_)
StrOfNat(n) ==
  IF n < 10 THEN <<DigitChars[n + 1]>>
  ELSE StrOfNat(n \div 10) \o <<DigitChars[(n % 10) + 1]>>

\* str(n) for an int
StrOfInt(n) == IF n < 0 THEN <<"-">> \o StrOfNat(0 - n) ELSE StrOfNat(n)

\* n written with at least w digits (strftime %m, %d, %Y, %y)
RECURSIVE Pad(_, _)
Pad(s, w) == IF Len(s) >= w THEN s ELSE Pad(<<"0">> \o s, w)

\* re.match(r"^[A-Za-z]{1}\d+$", s)
MatchLetterNum(s) ==
  /\ Len(s) >= 2
  /\ IsLetter(s[1])
  /\ \A i \in 2..Len(s) : IsDigit(s[i])

\* int(s) succeeds: optional blanks, optional sign, digits
IsIntText(s) ==
  LET t == Strip(s)
      u == IF t # <<>> /\ t[1] \in {"+", "-"} THEN Tail(t) ELSE t
  IN AllDigits(u)

\* int(s), where IsIntText(s)
IntOfText(s) ==
  LET t == Strip(s)
  IN IF t[1] = "-" THEN 0 - NatOf(Tail(t))
     ELSE IF t[1] = "+" THEN NatOf(Tail(t))
     ELSE NatOf(t)

\* s < t for str (lexicographic by code point)
Ord(c) == CHOOSE i \in 1..Len(CharOrder) : CharOrder[i] = c

RECURSIVE StrLess(_, _)
StrLess(s, t) ==
  IF t = <<>> THEN FALSE
  ELSE IF s = <<>> THEN TRUE
  ELSE IF Head(s) = Head(t) THEN StrLess(Tail(s), Tail(t))
  ELSE Ord(Head(s)) < Ord(Head(t))

(***************************************************************************)
(* Cells.  k tells the Python value held: "nan" (float NaN, what           *)
(* read_excel gives for an empty cell), "none" (None), "int", "float"      *)
(* (i holds the value in tenths), "str" (s holds the text), "ts"           *)
(* (a Timestamp at midnight, i = year*10000 + month*100 + day).            *)
(***************************************************************************)
NaN == [k |-> "nan", i |-> 0, s |-> <<>>]
NoneCell == [k |-> "none", i |-> 0, s |-> <<>>]
IntCell(n) == [k |-> "int", i |-> n, s |-> <<>>]
FloatCell(tenths) == [k |-> "float", i |-> tenths, s |-> <<>>]
StrCell(t) == [k |-> "str", i |-> 0, s |-> t]
TsCell(y, m, d) == [k |-> "ts", i |-> y * 10000 + m * 100 + d, s |-> <<>>]

TsYear(c) == c.i \div 10000
TsMonth(c) == (c.i \div 100) % 100
TsDay(c) == c.i % 100

\* str(value), as Series.astype(str) and str() give it
AsStr(c) ==
  CASE c.k = "nan" -> <<"n", "a", "n">>
    [] c.k = "none" -> <<"N", "o", "n", "e">>
    [] c.k = "int" -> StrOfInt(c.i)
    [] c.k = "float" ->
         (IF c.i < 0 THEN <<"-">> ELSE <<>>)
         \o StrOfNat((IF c.i < 0 THEN 0 - c.i ELSE c.i) \div 10)
         \o <<".">> \o StrOfNat((IF c.i < 0 THEN 0 - c.i ELSE c.i) % 10)
    [] c.k = "ts" ->
         Pad(StrOfNat(TsYear(c)), 4) \o <<"-">> \o Pad(StrOfNat(TsMonth(c)), 2)
         \o <<"-">> \o Pad(StrOfNat(TsDay(c)), 2)
         \o <<" ", "0", "0", ":", "0", "0", ":", "0", "0">>
    [] OTHER -> c.s

(***************************************************************************)
(* The four schemas: the getters of the InventoryManagerBase subclasses.   *)
(***************************************************************************)
Schemas == {"GridDewar", "Freezer80", "Freezer20", "CellDewar"}

\* get_date_column() of a manager that has no date column returns None
NoColumn == "None"

get_sort_columns(m) ==
  CASE m = "GridDewar" -> <<"Cane Number", "Puck Number", "Slot Number">>
    [] m = "Freezer80" -> <<"Shelf Number", "Rack Number", "Box Position", "Vial Position">>
    [] m = "Freezer20" -> <<"Shelf Number", "Rack Number", "Box Position">>
    [] m = "CellDewar" -> <<"Rack Number", "Box Number", "Vial Position">>

get_for_filled(m) ==
  CASE m = "GridDewar" -> <<"Cane Number", "Puck Number">>
    [] m = "Freezer80" -> <<"Shelf Number", "Rack Number", "Box Position">>
    [] m = "Freezer20" -> <<"Shelf Number", "Rack Number">>
    [] m = "CellDewar" -> <<"Rack Number", "Box Number">>

get_location_column(m) ==
  CASE m = "GridDewar" -> "Slot Number"
    [] m = "Freezer80" -> "Vial Position"
    [] m = "Freezer20" -> "Box Position"
    [] m = "CellDewar" -> "Vial Position"

get_int_fields(m) ==
  CASE m = "GridDewar" -> {"Cane Number", "Puck Number", "Slot Number"}
    [] m = "Freezer80" -> {"Shelf Number", "Rack Number"}
    [] m = "Freezer20" -> {"Shelf Number", "Rack Number"}
    [] m = "CellDewar" -> {"Rack Number", "Box Number"}

get_remove_fields(m) ==
  CASE m = "GridDewar" -> <<"Cane Number", "Puck Number", "Slot Number">>
    [] m = "Freezer80" ->
         <<"Shelf Number", "Rack Number", "Box Position", "Box Name", "Vial Position">>
    [] m = "Freezer20" -> <<"Shelf Number", "Rack Number", "Box Position">>
    [] m = "CellDewar" -> <<"Rack Number", "Box Number", "Vial Position">>

get_label_column(m) ==
  CASE m = "GridDewar" -> "Box Name"
    [] m = "Freezer80" -> "Vial Label"
    [] m = "Freezer20" -> "Box Name"
    [] m = "CellDewar" -> "Vial Label"

get_letter_nums(m) ==
  CASE m = "GridDewar" -> {}
    [] m = "Freezer80" -> {"Box Position", "Vial Position"}
    [] m = "Freezer20" -> {"Box Position"}
    [] m = "CellDewar" -> {"Vial Position", "Passage Number"}

get_date_column(m) ==
  CASE m = "GridDewar" -> "Date Frozen"
    [] m = "Freezer80" -> "Date Frozen"
    [] m = "Freezer20" -> NoColumn
    [] m = "CellDewar" -> "Date Frozen"

\* "Blot Force" "Drain Time" has no comma between the two literals: Python
\* concatenates them into one name
get_required_add_fields(m) ==
  CASE m = "GridDewar" ->
         <<"Cane Number", "Puck Number", "Slot Number", "Box Name", "Grid Numbers",
           "Box Contents", "Date Frozen", "Person/Initials", "Project", "Grid Type",
           "Blot Time", "Blot ForceDrain Time">>
    [] m = "Freezer80" ->
         <<"Shelf Number", "Rack Number", "Box Position", "Box Name", "Vial Position",
           "Vial Label", "Vial Contents", "Date Frozen", "Person/Initials", "Project",
           "Box Dimensions">>
    [] m = "Freezer20" ->
         <<"Shelf Number", "Rack Number", "Box Position", "Box Name",
           "Person/Initials", "Project/Group">>
    [] m = "CellDewar" ->
         <<"Rack Number", "Box Number", "Vial Position", "Vial Label", "Cell Type",
           "Passage Number", "Date Frozen", "Person/Initials", "Project">>

get_required_remove_fields(m) ==
  CASE m = "GridDewar" -> <<"Cane Number", "Puck Number", "Slot Number">>
    [] m = "Freezer80" ->
         <<"Shelf Number", "Rack Number", "Box Position", "Box Name", "Vial Position">>
    [] m = "Freezer20" -> <<"Shelf Number", "Rack Number", "Box Position">>
    [] m = "CellDewar" -> <<"Rack Number", "Box Number", "Vial Position">>

get_unused_columns(m) ==
  CASE m = "GridDewar" -> {"Unnamed: 6"}
    [] m = "Freezer80" -> {"Unnamed: 6"}
    [] m = "Freezer20" -> {}
    [] m = "CellDewar" -> {"Unnamed: 4", "Original Box"}

Range(f) == {f[i] : i \in DOMAIN f}

\* The header of the "Details" sheet, in sheet order: the columns the managers
\* name (the fields a user must fill, written as the two columns "Blot Force"
\* and "Drain Time" for the grid dewar) and then the columns hidden from the
\* form.
Header(m) ==
  CASE m = "GridDewar" ->
         <<"Cane Number", "Puck Number", "Slot Number", "Box Name", "Grid Numbers",
           "Box Contents", "Date Frozen", "Person/Initials", "Project", "Grid Type",
           "Blot Time", "Blot Force", "Drain Time", "Unnamed: 6">>
    [] m = "Freezer80" -> get_required_add_fields(m) \o <<"Unnamed: 6">>
    [] m = "Freezer20" -> get_required_add_fields(m)
    [] m = "CellDewar" -> get_required_add_fields(m) \o <<"Unnamed: 4", "Original Box">>

Columns(m) == Range(Header(m))

\* the columns that get an entry box (Configure_AddRemove_Window), in order
EntryFields(m) == SelectSeq(Header(m), LAMBDA c : c \notin get_unused_columns(m))

(***************************************************************************)
(* pandas conversions, cell by cell.                                       *)
(***************************************************************************)
\* text of the form digits "." digits, optionally signed: a float literal
IsDecimalText(s) ==
  LET u == IF s # <<>> /\ s[1] \in {"+", "-"} THEN Tail(s) ELSE s
      p == Split(u, ".")
  IN Len(p) = 2 /\ AllDigits(p[1]) /\ AllDigits(p[2]) /\ Len(p[2]) = 1

\* pd.to_numeric(value, errors="coerce"): a number, or NaN
to_numeric(c) ==
  CASE c.k = "int" -> c
    [] c.k = "float" -> c
    [] c.k = "str" /\ AllDigits(c.s) -> IntCell(NatOf(c.s))
    [] c.k = "str" /\ ~AllDigits(c.s) /\ Len(c.s) > 1 /\ c.s[1] = "-"
         /\ AllDigits(Tail(c.s)) -> IntCell(0 - NatOf(Tail(c.s)))
    [] c.k = "str" /\ IsDecimalText(c.s) ->
         LET u == IF c.s[1] \in {"+", "-"} THEN Tail(c.s) ELSE c.s
             p == Split(u, ".")
             v == 10 * NatOf(p[1]) + NatOf(p[2])
         IN FloatCell(IF c.s[1] = "-" THEN 0 - v ELSE v)
    [] OTHER -> NaN

\* .astype("Int64") raises TypeError (cannot safely cast non-equivalent
\* float64 to int64) when a value has a fractional part
Int64Raises(c) == c.k = "float" /\ c.i % 10 # 0

\* .astype("Int64") of one value: an int, or <NA> (held as NaN)
AsInt64(c) ==
  CASE c.k = "int" -> c
    [] c.k = "float" -> IntCell(c.i \div 10)
    [] OTHER -> NaN

IsLeap(y) == (y % 4 = 0 /\ y % 100 # 0) \/ y % 400 = 0

DaysIn(m, y) ==
  CASE m \in {4, 6, 9, 11} -> 30
    [] m = 2 -> IF IsLeap(y) THEN 29 ELSE 28
    [] OTHER -> 31

\* a two-digit year is read in the current century
FullYear(t) == IF Len(t) = 2 THEN 2000 + NatOf(t) ELSE NatOf(t)

\* month a, day b, year y as a date: month first; when a cannot be a month
\* and b can, day first; otherwise no date (NaT, held as NaN)
DateOf(a, b, y) ==
  IF a \in 1..12 /\ b \in 1..DaysIn(a, y) THEN TsCell(y, a, b)
  ELSE IF b \in 1..12 /\ a \in 1..DaysIn(b, y) THEN TsCell(y, b, a)
  ELSE NaN

ParseParts(p) ==
  IF /\ Len(p) = 3
     /\ \A i \in 1..3 : AllDigits(p[i])
     /\ Len(p[1]) <= 2 /\ Len(p[2]) <= 2 /\ Len(p[3]) \in {2, 4}
  THEN DateOf(NatOf(p[1]), NatOf(p[2]), FullYear(p[3]))
  ELSE NaN

\* The date parser behind pd.to_datetime(..., dayfirst=False) on text of the
\* form N/N/N; any other text does not parse.
ParseDate(s) == ParseParts(Split(Strip(s), "/"))

\* pd.to_datetime(value, errors="coerce", dayfirst=False)
to_datetime(c) ==
  CASE c.k = "ts" -> c
    [] c.k = "str" -> ParseDate(c.s)
    [] OTHER -> NaN

\* the date written day first, "%d/%m/%Y"
strftime_dmY(c) ==
  IF c.k = "ts"
  THEN StrCell(Pad(StrOfNat(TsDay(c)), 2) \o <<"/">> \o Pad(StrOfNat(TsMonth(c)), 2)
               \o <<"/">> \o Pad(StrOfNat(TsYear(c)), 4))
  ELSE NaN

\* Timestamp.strftime("%m/%d/%Y"); NaT gives NaN
strftime_mdY(c) ==
  IF c.k = "ts"
  THEN StrCell(Pad(StrOfNat(TsMonth(c)), 2) \o <<"/">> \o Pad(StrOfNat(TsDay(c)), 2)
               \o <<"/">> \o Pad(StrOfNat(TsYear(c)), 4))
  ELSE NaN

\* Timestamp.strftime("%m/%d/%y")
strftime_mdy(c) ==
  StrCell(Pad(StrOfNat(TsMonth(c)), 2) \o <<"/">> \o Pad(StrOfNat(TsDay(c)), 2)
          \o <<"/">> \o Pad(StrOfNat(TsYear(c) % 100), 2))

\* Series.fillna(v) on one value
fillna(c, v) == IF c.k \in {"nan", "none"} THEN v ELSE c

(***************************************************************************)
(* InventoryManagerBase.clean_dataframe.                                   *)
(***************************************************************************)
\* integer column: to_numeric, Int64, then fillna(-1)
CleanIntCell(c) == fillna(AsInt64(to_numeric(c)), IntCell(-1))

\* letter-number column: str, strip, upper, keep a match, else NaN -> ""
CleanLetterNumCell(c) ==
  LET t == Upper(Strip(AsStr(c)))
  IN fillna(IF MatchLetterNum(t) THEN StrCell(t) ELSE NaN, StrCell(<<>>))

\* date column, were a value that does not parse kept as it is
CleanDateCellKeep(c) ==
  IF to_datetime(c).k = "ts" THEN strftime_mdY(to_datetime(c)) ELSE c

\* date column: to_datetime, strftime, fillna("")
CleanDateCell(c) == fillna(strftime_mdY(to_datetime(c)), StrCell(<<>>))

\* any other column: str, strip, "nan" -> ""
CleanOtherCell(c) ==
  LET t == Strip(AsStr(c))
  IN fillna(IF t = <<"n", "a", "n">> THEN StrCell(<<>>) ELSE StrCell(t), StrCell(<<>>))

CleanCell(m, col, c) ==
  IF col \in get_int_fields(m) THEN CleanIntCell(c)
  ELSE IF col \in get_letter_nums(m) THEN CleanLetterNumCell(c)
  ELSE IF col = get_date_column(m) THEN CleanDateCell(c)
  ELSE CleanOtherCell(c)

\* the call raises when the Int64 cast of an integer column does
CleanRaises(m, df) ==
  \E r \in 1..Len(df) : \E col \in get_int_fields(m) \cap DOMAIN df[r] :
      Int64Raises(to_numeric(df[r][col]))

\* the cleaned copy: [ok |-> TRUE, df |-> table], or ok = FALSE when the
\* call raised
clean_dataframe(m, df) ==
  IF CleanRaises(m, df)
  THEN [ok |-> FALSE, df |-> <<>>]
  ELSE [ok |-> TRUE,
        df |-> [r \in 1..Len(df) |->
                  [col \in DOMAIN df[r] |-> CleanCell(m, col, df[r][col])]]]

(***************************************************************************)
(* dataAddWindows: validation of the entry boxes.                          *)
(* entries maps each entry field to the text typed into it.                *)
(***************************************************************************)
\* what a handler shows in the label at the top of the window: the kind of
\* message, the field names it lists and the text it lists
NoMessage == [kind |-> "none", fields |-> <<>>, text |-> <<>>]
Message(kind, fields, text) == [kind |-> kind, fields |-> fields, text |-> text]

\* validate_required_fields: raises KeyError when a required field has no
\* entry box; otherwise lists every required field left blank
RequiredRaises(entries, required) ==
  \E i \in 1..Len(required) : required[i] \notin DOMAIN entries

MissingFields(entries, required) ==
  SelectSeq(required, LAMBDA f : Strip(entries[f]) = <<>>)

\* [loc.strip() for loc in raw_value.split(",") if loc.strip()]
UserLocations(raw) ==
  LET parts == Split(raw, ",")
      stripped == [i \in 1..Len(parts) |-> Strip(parts[i])]
  IN SelectSeq(stripped, LAMBDA t : t # <<>>)

AllInt(locs) == \A i \in 1..Len(locs) : IsIntText(locs[i])

AllLetterNum(locs) == \A i \in 1..Len(locs) : MatchLetterNum(Upper(locs[i]))

\* the rule one filled field must pass (validate_entries, cases 1 to 4)
FieldValid(m, f, raw) ==
  IF f \in get_int_fields(m)
  THEN IF f = get_location_column(m) THEN AllInt(UserLocations(raw)) ELSE IsIntText(raw)
  ELSE IF f \in get_letter_nums(m)
  THEN IF f = get_location_column(m) THEN AllLetterNum(UserLocations(raw))
       ELSE MatchLetterNum(raw)
  ELSE IF f = get_date_column(m)
  THEN ParseDate(raw).k = "ts"
  ELSE TRUE

\* the cleaned value of one filled, valid field other than the locations
FieldValue(m, f, raw) ==
  IF f \in get_int_fields(m) THEN IntCell(IntOfText(raw))
  ELSE IF f \in get_letter_nums(m) THEN StrCell(Upper(raw))
  ELSE IF f = get_date_column(m) THEN strftime_mdy(ParseDate(raw))
  ELSE StrCell(raw)

\* the cleaned list of locations
LocationValues(m, raw) ==
  LET u == UserLocations(raw)
  IN IF get_location_column(m) \in get_int_fields(m)
     THEN [i \in 1..Len(u) |-> IntCell(IntOfText(u[i]))]
     ELSE IF get_location_column(m) \in get_letter_nums(m)
     THEN [i \in 1..Len(u) |-> StrCell(Upper(u[i]))]
     ELSE <<StrCell(raw)>>

\* the filled fields, in the order of the entry boxes
FilledFields(m, entries) ==
  SelectSeq(EntryFields(m), LAMBDA f : Strip(entries[f]) # <<>>)

\* the message for field f failing its rule: an integer location names the
\* first token that is not an integer
FieldMessage(m, f, raw) ==
  IF f \in get_int_fields(m) /\ f = get_location_column(m)
  THEN Message("invalid", <<f>>,
               SelectSeq(UserLocations(raw), LAMBDA t : ~IsIntText(t))[1])
  ELSE Message("invalid", <<f>>, <<>>)

FirstInvalid(m, entries, filled) ==
  SelectSeq(filled, LAMBDA f : ~FieldValid(m, f, Strip(entries[f])))[1]

\* the message of the first field that fails its rule
InvalidMessage(m, entries, f) == FieldMessage(m, f, Strip(entries[f]))

\* validate_entries over the filled fields
Cleaned(m, entries, filled) ==
  IF \E i \in 1..Len(filled) : ~FieldValid(m, filled[i], Strip(entries[filled[i]]))
  THEN [valid |-> FALSE, data |-> << >>, locs |-> <<>>, hasLoc |-> FALSE,
        msg |-> InvalidMessage(m, entries, FirstInvalid(m, entries, filled))]
  ELSE [valid |-> TRUE,
        data |-> [f \in Range(filled) \ {get_location_column(m)} |->
                    FieldValue(m, f, Strip(entries[f]))],
        locs |-> IF get_location_column(m) \in Range(filled)
                 THEN LocationValues(m, Strip(entries[get_location_column(m)]))
                 ELSE <<>>,
        hasLoc |-> get_location_column(m) \in Range(filled),
        msg |-> NoMessage]

\* validate_entries: None (valid = FALSE) with a message, or the cleaned
\* data: data maps every filled field but the location to its value, locs
\* is the list held under the location column, hasLoc tells it is there
validate_entries(m, entries) == Cleaned(m, entries, FilledFields(m, entries))

(***************************************************************************)
(* DataFrame.sort_values(by=columns_to_sort_by): a stable sort on the      *)
(* ordered list of columns, missing values last.                           *)
(***************************************************************************)
IsNull(c) == c.k \in {"nan", "none"}

CellLess(a, b) ==
  IF IsNull(a) THEN FALSE
  ELSE IF IsNull(b) THEN TRUE
  ELSE IF a.k = "str" /\ b.k = "str" THEN StrLess(a.s, b.s)
  ELSE a.i < b.i

CellSame(a, b) == (IsNull(a) /\ IsNull(b)) \/ a = b

RECURSIVE RowLessBy(_, _, _)
RowLessBy(by, r1, r2) ==
  IF by = <<>> THEN FALSE
  ELSE IF CellSame(r1[Head(by)], r2[Head(by)]) THEN RowLessBy(Tail(by), r1, r2)
  ELSE CellLess(r1[Head(by)], r2[Head(by)])

\* x put after every row that does not come after it
InsertRow(by, sorted, x) ==
  LET later == {i \in 1..Len(sorted) : RowLessBy(by, x, sorted[i])}
      k == IF later = {} THEN Len(sorted) + 1
           ELSE CHOOSE i \in later : \A j \in later : i <= j
  IN SubSeq(sorted, 1, k - 1) \o <<x>> \o SubSeq(sorted, k, Len(sorted))

\* sort_values, were the rows left in the order they are in
sort_values_kept(by, rows) == rows

RECURSIVE sort_values(_, _)
sort_values(by, rows) ==
  IF rows = <<>> THEN <<>>
  ELSE InsertRow(by, sort_values(by, SubSeq(rows, 1, Len(rows) - 1)), rows[Len(rows)])

(***************************************************************************)
(* dataAddWindows.add_data and remove_data, up to the callback.            *)
(***************************************************************************)
\* one new row per location: the cleaned values, None in every other column
NewRows(m, cleaned) ==
  [i \in 1..Len(cleaned.locs) |->
     [col \in Columns(m) |->
        IF col = get_location_column(m) THEN cleaned.locs[i]
        ELSE IF col \in DOMAIN cleaned.data THEN cleaned.data[col]
        ELSE NoneCell]]

\* rows_df[col].astype(str).str.strip() == str(value).strip()
SameText(a, b) == Strip(AsStr(a)) = Strip(AsStr(b))

\* the mask of add_data: every for_filled column and the location column
AddMaskColumns(m) == Range(get_for_filled(m)) \cup {get_location_column(m)}

AddMask(m, rows, cand) ==
  SelectSeq(rows, LAMBDA r : \A col \in AddMaskColumns(m) : SameText(r[col], cand[col]))

\* conflict_locations: for each new row in turn, the existing rows it matches
RECURSIVE ConflictRows(_, _, _)
ConflictRows(m, rows, new) ==
  IF new = <<>> THEN <<>>
  ELSE AddMask(m, rows, Head(new)) \o ConflictRows(m, rows, Tail(new))

\* ', '.join(values) raises TypeError unless every value is a str
JoinRaises(cells) == \E i \in 1..Len(cells) : cells[i].k # "str"

JoinCells(cells) == Join([i \in 1..Len(cells) |-> cells[i].s])

\* the mask of remove_data for one location: every remove field
RemoveMask(m, rows, cleaned, loc) ==
  {r \in 1..Len(rows) :
     \A i \in 1..Len(get_remove_fields(m)) :
        LET f == get_remove_fields(m)[i]
            val == IF f = get_location_column(m) THEN loc ELSE cleaned.data[f]
        IN SameText(rows[r][f], val)}

\* local_data[field] raises KeyError when a remove field was left blank
RemoveKeyRaises(m, cleaned) ==
  cleaned.locs # <<>> /\
  \E i \in 1..Len(get_remove_fields(m)) :
     get_remove_fields(m)[i] \notin (DOMAIN cleaned.data \cup {get_location_column(m)})

\* the requested locations that match no row
RemoveConflicts(m, rows, cleaned) ==
  SelectSeq(cleaned.locs, LAMBDA loc : RemoveMask(m, rows, cleaned, loc) = {})

\* matched_indices
MatchedIndices(m, rows, cleaned) ==
  UNION {RemoveMask(m, rows, cleaned, cleaned.locs[i]) : i \in 1..Len(cleaned.locs)}

\* DataFrame.drop(index=matched_indices)
RECURSIVE DropRows(_, _, _)
DropRows(rows, idx, k) ==
  IF k > Len(rows) THEN <<>>
  ELSE (IF k \in idx THEN <<>> ELSE <<rows[k]>>) \o DropRows(rows, idx, k + 1)

(***************************************************************************)
(* ExcelHelper: the sheet written from a DataFrame and read back.          *)
(***************************************************************************)
\* text pd.read_excel takes for a missing value
NaText == {<<>>, <<"n", "a", "n">>, <<"N", "o", "n", "e">>}

\* one cell written by update_single_sheet (ws.append) and read by
\* create_df (pd.read_excel): an empty cell or a missing-value text is read
\* as NaN, any other value as it was written
SheetCell(c) ==
  IF IsNull(c) \/ (c.k = "str" /\ c.s \in NaText) THEN NaN ELSE c

\* update_single_sheet(file_path, df, sheet_name) then create_df(file_path)
SheetOf(rows) ==
  [r \in 1..Len(rows) |-> [col \in DOMAIN rows[r] |-> SheetCell(rows[r][col])]]

\* a workbook: the "Details" sheet and the grid rendered from the rows
Workbook(details, grid) == [details |-> details, grid |-> grid]

(***************************************************************************)
(* The identifiers and paths of the managers (their __init__).             *)
(***************************************************************************)
NoKey == "None"

row_id_key(m) ==
  CASE m = "GridDewar" -> "Grid_Dewar_Inventory"
    [] m = "Freezer80" -> "80_Inventory"
    [] m = "Freezer20" -> "20_Inventory"
    [] m = "CellDewar" -> "Cell_Culture_Inventory_Rows"

grid_id_key(m) ==
  CASE m = "GridDewar" -> NoKey
    [] m = "Freezer80" -> "80_Inventory"
    [] m = "Freezer20" -> "20_Inventory"
    [] m = "CellDewar" -> "Cell_Culture_Inventory_Grid"

row_path(m) ==
  CASE m = "GridDewar" -> "Grid_Dewar_Inventory.xlsx"
    [] m = "Freezer80" -> "80_Inventory.xlsx"
    [] m = "Freezer20" -> "20_Inventory.xlsx"
    [] m = "CellDewar" -> "Cell_Culture_Inventory_Rows.xlsx"

grid_path(m) ==
  CASE m = "GridDewar" -> "None"
    [] m = "Freezer80" -> "80_Inventory.xlsx"
    [] m = "Freezer20" -> "20_Inventory.xlsx"
    [] m = "CellDewar" -> "Cell_Culture_Inventory_Grid.xlsx"

\* IDManager.get_id: dict.get, None for a key that is not registered
get_id(reg, key) == IF key \in DOMAIN reg THEN reg[key] ELSE "None"

row_ID(reg, m) == get_id(reg, row_id_key(m))
grid_ID(reg, m) == IF grid_id_key(m) = NoKey THEN "None" ELSE get_id(reg, grid_id_key(m))

\* "not file_id": None or the empty string
Falsy(id) == id \in {"", "None"}

(***************************************************************************)
(* DriveManager.  The store maps the identifier of each remote file to     *)
(* its modifiedTime (tok) and its content (bytes).  resp is what the       *)
(* store answers to a request on an existing file: "ok", "403" or "500".   *)
(***************************************************************************)
Responses == {"ok", "403", "500"}

\* the value kept as row_alter_time / grid_alter_time: the attribute is not
\* set, holds None, holds some text, or holds a modifiedTime
Unset == [st |-> "unset", tok |-> 0]
IsNone == [st |-> "none", tok |-> 0]
SomeText == [st |-> "text", tok |-> 0]
Token(t) == [st |-> "token", tok |-> t]

Ret(success, info) == [success |-> success, info |-> info]

\* the error a failing request is mapped to (except HttpError as e)
HttpErrorInfo(resp) ==
  IF resp = "404" THEN "NOT_FOUND"
  ELSE IF resp = "403" THEN "PERMISSION_DENIED"
  ELSE "HTTP_ERROR"

\* download_file(file_id, output_path): what it returns
download_file(drv, file_id, resp) ==
  IF Falsy(file_id) THEN Ret(FALSE, "MISSING_ID")
  ELSE IF file_id \notin DOMAIN drv THEN Ret(FALSE, HttpErrorInfo("404"))
  ELSE IF resp # "ok" THEN Ret(FALSE, HttpErrorInfo(resp))
  ELSE Ret(TRUE, "None")

\* download_file writing output_path before the request is answered
download_local_early(drv, loc, file_id, output_path, resp) ==
  [p \in DOMAIN loc \cup {output_path} |->
     IF p = output_path
     THEN IF download_file(drv, file_id, resp).success
          THEN drv[file_id].bytes ELSE Workbook(<<>>, <<>>)
     ELSE loc[p]]

\* download_file: the local files after the call
download_local(drv, loc, file_id, output_path, resp) ==
  IF download_file(drv, file_id, resp).success
  THEN [p \in DOMAIN loc \cup {output_path} |->
          IF p = output_path THEN drv[file_id].bytes ELSE loc[p]]
  ELSE loc

\* the value download_file's info stands for when kept as an alter time
AlterTimeOf(info) == IF info = "None" THEN IsNone ELSE SomeText

\* current_modified != download_alter_time
Stale(drv, file_id, alter_time) ==
  ~(alter_time.st = "token" /\ alter_time.tok = drv[file_id].tok)

\* upload_file without the comparison of modifiedTime with the token given
upload_file_unchecked(drv, loc, file_path, alter_time, file_id, respGet, respPut) ==
  IF file_path \notin DOMAIN loc THEN Ret(FALSE, "ERROR")
  ELSE IF file_id = "None" THEN Ret(FALSE, "ERROR")
  ELSE IF file_id \notin DOMAIN drv THEN Ret(FALSE, HttpErrorInfo("404"))
  ELSE IF respGet # "ok" THEN Ret(FALSE, HttpErrorInfo(respGet))
  ELSE IF respPut # "ok" THEN Ret(FALSE, HttpErrorInfo(respPut))
  ELSE Ret(TRUE, file_id)

\* upload_file(file_path, download_alter_time, file_id, parent_id): what it
\* returns.  MediaFileUpload raises for a file that is not there, and
\* files().get(fileId=None) raises TypeError; both are caught as "ERROR".
upload_file(drv, loc, file_path, alter_time, file_id, respGet, respPut) ==
  IF file_path \notin DOMAIN loc THEN Ret(FALSE, "ERROR")
  ELSE IF file_id = "None" THEN Ret(FALSE, "ERROR")
  ELSE IF file_id \notin DOMAIN drv THEN Ret(FALSE, HttpErrorInfo("404"))
  ELSE IF respGet # "ok" THEN Ret(FALSE, HttpErrorInfo(respGet))
  ELSE IF Stale(drv, file_id, alter_time) THEN Ret(FALSE, "STALE_FILE_ERROR")
  ELSE IF ~Falsy(file_id)
  THEN IF respPut # "ok" THEN Ret(FALSE, HttpErrorInfo(respPut))
       ELSE Ret(TRUE, file_id)
  ELSE IF respPut # "ok" THEN Ret(FALSE, HttpErrorInfo(respPut))
  ELSE Ret(TRUE, "NEW_ID")

\* the store after an upload that returned r
Written(drv, loc, file_path, r) ==
  IF ~r.success THEN drv
  ELSE [id \in DOMAIN drv \cup {r.info} |->
          IF id = r.info
          THEN [tok |-> IF id \in DOMAIN drv THEN drv[id].tok + 1 ELSE 1,
                bytes |-> loc[file_path]]
          ELSE drv[id]]

\* upload_file: the store after the call (files().update / files().create)
upload_drive(drv, loc, file_path, alter_time, file_id, respGet, respPut) ==
  Written(drv, loc, file_path,
          upload_file(drv, loc, file_path, alter_time, file_id, respGet, respPut))

(***************************************************************************)
(* What the user types: the entry boxes of the add / remove window.        *)
(***************************************************************************)
\* the text of a box in the form all others are varied from
BaseText(m, f) ==
  IF f \in get_int_fields(m) THEN <<"1">>
  ELSE IF f \in get_letter_nums(m) THEN <<"A", "1">>
  ELSE IF f = get_date_column(m) THEN <<"0", "6", "/", "3", "0", "/", "2", "0", "2", "5">>
  ELSE <<"x">>

\* another valid text for the same box
OtherText(m, f) ==
  IF f \in get_int_fields(m) THEN <<"2">>
  ELSE IF f \in get_letter_nums(m) THEN <<"B", "2">>
  ELSE <<"o">>

\* texts typed into the location box
LocationTexts(m) ==
  IF get_location_column(m) \in get_int_fields(m)
  THEN {<<"1">>, <<"2">>, <<"1", ",", " ", "2">>, <<"1", ",", "1">>, <<"x">>}
  ELSE {<<"A", "1">>, <<"b", "2">>, <<"A", "1", ",", " ", "B", "2">>,
        <<"A", "1", ",", "A", "1">>, <<"1", "A">>}

BadDateText == <<"1", "3", "/", "4", "0", "/", "2", "0", "2", "4">>

BaseForm(m) == [f \in Range(EntryFields(m)) |-> BaseText(m, f)]

\* f2 is f with box b holding t
WithBox(f, b, t) == [x \in DOMAIN f |-> IF x = b THEN t ELSE f[x]]

\* the forms the user submits: the base form, with the first container box
\* changed or not and any location text, a form with a bad date, a form with
\* the location box left blank, and a form with the location box and the first
\* container box left blank
Forms(m) ==
  LET containers == {BaseForm(m),
                     WithBox(BaseForm(m), get_for_filled(m)[1],
                             OtherText(m, get_for_filled(m)[1]))}
  IN {WithBox(c, get_location_column(m), t) : c \in containers, t \in LocationTexts(m)}
     \cup {WithBox(BaseForm(m), b, BadDateText) : b \in {get_date_column(m)} \cap DOMAIN BaseForm(m)}
     \cup {WithBox(BaseForm(m), get_location_column(m), <<" ">>)}
     \cup {WithBox(WithBox(BaseForm(m), get_location_column(m), <<" ">>),
                    get_for_filled(m)[1], <<>>)}

\* the forms of each schema, and validate_entries on each of them, computed
\* once
FormsOf == [m \in Schemas |-> Forms(m)]

ValidatedForms == [m \in Schemas |-> [f \in Forms(m) |-> validate_entries(m, f)]]

Validated(m, entries) ==
  IF entries \in FormsOf[m] THEN ValidatedForms[m][entries] ELSE validate_entries(m, entries)

(***************************************************************************)
(* add_data and remove_data as functions of the rows, the entry boxes and  *)
(* the answer to the confirmation popup.  res tells how the handler ended: *)
(* "raised" (an exception left the handler), "missing", "invalid",         *)
(* "conflict", "cancelled" or "accepted".  cleaned is self.cleaned_data    *)
(* after the call and rows is self.rows_df after the call.                 *)
(***************************************************************************)
Ended(res, msg, rows, cleaned) ==
  [res |-> res, msg |-> msg, rows |-> rows, cleaned |-> cleaned]

LocationCells(m, rows) == [i \in 1..Len(rows) |-> rows[i][get_location_column(m)]]

\* add_data from the conflict check on, were the rows without a conflict
\* appended when the batch is rejected
AddCheckedPartial(m, rows, v, new_rows, conflict_locations) ==
  IF conflict_locations # <<>>
  THEN IF JoinRaises(LocationCells(m, conflict_locations))
       THEN Ended("raised", NoMessage, rows, v)
       ELSE Ended("conflict",
                  Message("occupied", <<get_location_column(m)>>,
                          JoinCells(LocationCells(m, conflict_locations))),
                  sort_values(get_sort_columns(m),
                              rows \o SelectSeq(new_rows,
                                                LAMBDA r : AddMask(m, rows, r) = <<>>)),
                  v)
  ELSE Ended("accepted", NoMessage, sort_values(get_sort_columns(m), rows \o new_rows), v)

\* add_data from the conflict check on
AddChecked(m, rows, v, new_rows, conflict_locations) ==
  IF conflict_locations # <<>>
  THEN IF JoinRaises(LocationCells(m, conflict_locations))
       THEN Ended("raised", NoMessage, rows, v)
       ELSE Ended("conflict",
                  Message("occupied", <<get_location_column(m)>>,
                          JoinCells(LocationCells(m, conflict_locations))),
                  rows, v)
  ELSE Ended("accepted", NoMessage, sort_values(get_sort_columns(m), rows \o new_rows), v)

\* add_data once the new rows are built
AddRows(m, rows, v, new_rows) ==
  AddChecked(m, rows, v, new_rows, ConflictRows(m, rows, new_rows))

\* add_data once validate_entries returned v
AddValidated(m, rows, v, confirm) ==
  IF ~v.valid THEN Ended("invalid", v.msg, rows, v)
  ELSE IF ~confirm THEN Ended("cancelled", NoMessage, rows, v)
  ELSE IF ~v.hasLoc THEN Ended("raised", NoMessage, rows, v)
  ELSE AddRows(m, rows, v, NewRows(m, v))

add_data(m, rows, cleaned0, entries, confirm) ==
  IF RequiredRaises(entries, get_required_add_fields(m))
  THEN Ended("raised", NoMessage, rows, cleaned0)
  ELSE IF MissingFields(entries, get_required_add_fields(m)) # <<>>
  THEN Ended("missing",
             Message("missing", MissingFields(entries, get_required_add_fields(m)), <<>>),
             rows, cleaned0)
  ELSE AddValidated(m, rows, Validated(m, entries), confirm)

\* remove_data from the check of the locations on, were the rows dropped
\* before the confirmation is asked
RemoveCheckedEarly(m, rows, v, conflict_locations, confirm) ==
  IF conflict_locations # <<>>
  THEN IF JoinRaises(conflict_locations)
       THEN Ended("raised", NoMessage, rows, v)
       ELSE Ended("conflict",
                  Message("absent", <<get_location_column(m)>>, JoinCells(conflict_locations)),
                  rows, v)
  ELSE Ended(IF confirm THEN "accepted" ELSE "cancelled", NoMessage,
             sort_values(get_sort_columns(m), DropRows(rows, MatchedIndices(m, rows, v), 1)),
             v)

\* remove_data from the check of the locations that match no row on
RemoveChecked(m, rows, v, conflict_locations, confirm) ==
  IF conflict_locations # <<>>
  THEN IF JoinRaises(conflict_locations)
       THEN Ended("raised", NoMessage, rows, v)
       ELSE Ended("conflict",
                  Message("absent", <<get_location_column(m)>>, JoinCells(conflict_locations)),
                  rows, v)
  ELSE IF ~confirm THEN Ended("cancelled", NoMessage, rows, v)
  ELSE Ended("accepted", NoMessage,
             sort_values(get_sort_columns(m), DropRows(rows, MatchedIndices(m, rows, v), 1)),
             v)

\* remove_data once validate_entries returned v
RemoveValidated(m, rows, v, confirm) ==
  IF ~v.valid THEN Ended("invalid", v.msg, rows, v)
  ELSE IF ~v.hasLoc \/ RemoveKeyRaises(m, v) THEN Ended("raised", NoMessage, rows, v)
  ELSE RemoveChecked(m, rows, v, RemoveConflicts(m, rows, v), confirm)

remove_data(m, rows, cleaned0, entries, confirm) ==
  IF RequiredRaises(entries, get_required_remove_fields(m))
  THEN Ended("raised", NoMessage, rows, cleaned0)
  ELSE IF MissingFields(entries, get_required_remove_fields(m)) # <<>>
  THEN Ended("missing",
             Message("missing", MissingFields(entries, get_required_remove_fields(m)), <<>>),
             rows, cleaned0)
  ELSE RemoveValidated(m, rows, Validated(m, entries), confirm)

(***************************************************************************)
(* handle_add / handle_remove: the callback that writes the local files    *)
(* and uploads them.                                                       *)
(***************************************************************************)
\* the dialog _handle_drive_error shows for an error
Dialog(error, id_key) ==
  IF error = "STALE_FILE_ERROR" THEN [kind |-> "stale", key |-> NoKey]
  ELSE IF error \in {"MISSING_ID", "NOT_FOUND"} THEN [kind |-> "change_id", key |-> id_key]
  ELSE IF error = "PERMISSION_DENIED" THEN [kind |-> "denied", key |-> NoKey]
  ELSE [kind |-> "failed", key |-> NoKey]

SavedDialog == [kind |-> "saved", key |-> NoKey]

\* update_row_inventory: the "Details" sheet of the row file is rewritten
update_row_inventory(m, loc, rows) ==
  [p \in DOMAIN loc \cup {row_path(m)} |->
     IF p = row_path(m)
     THEN Workbook(SheetOf(rows), IF p \in DOMAIN loc THEN loc[p].grid ELSE <<>>)
     ELSE loc[p]]

\* update_grid_inventory raises when load_workbook(grid_path) finds no file
GridRaises(m, loc) == m # "GridDewar" /\ grid_path(m) \notin DOMAIN loc

\* update_grid_inventory: the grid sheets are rendered from the rows
update_grid_inventory(m, loc, rows) ==
  IF m = "GridDewar" THEN loc
  ELSE [p \in DOMAIN loc |->
          IF p = grid_path(m) THEN Workbook(loc[p].details, SheetOf(rows)) ELSE loc[p]]

\* how a callback ended: whether it raised, the files, the dialogs shown and
\* the upload_file statements it began, in order (a statement whose
\* argument cannot be read raises before the call is made)
Done(raised, loc, drv, dialogs, uploads) ==
  [raised |-> raised, local |-> loc, drive |-> drv, dialogs |-> dialogs,
   uploads |-> uploads]

\* the dialogs an upload that returned r adds
UploadDialogs(m, r) == IF r.success THEN <<>> ELSE <<Dialog(r.info, row_id_key(m))>>

\* the callback after the row upload: the grid upload when the grid file is
\* another file, then the "changes saved" window
AfterRowUpload(m, reg, drv1, loc2, gat, resp, d1) ==
  IF grid_ID(reg, m) = row_ID(reg, m)
  THEN Done(FALSE, loc2, drv1, d1 \o <<SavedDialog>>, <<"row">>)
  ELSE IF gat = Unset THEN Done(TRUE, loc2, drv1, d1, <<"row", "grid">>)
  ELSE Done(FALSE, loc2,
            upload_drive(drv1, loc2, grid_path(m), gat, grid_ID(reg, m), resp, resp),
            d1 \o UploadDialogs(m, upload_file(drv1, loc2, grid_path(m), gat,
                                               grid_ID(reg, m), resp, resp))
               \o <<SavedDialog>>,
            <<"row", "grid">>)

\* the callback after both local files are written: the row upload
AfterSheets(m, reg, drv, loc2, rat, gat, resp) ==
  IF rat = Unset THEN Done(TRUE, loc2, drv, <<>>, <<"row">>)
  ELSE AfterRowUpload(m, reg,
                      upload_drive(drv, loc2, row_path(m), rat, row_ID(reg, m), resp, resp),
                      loc2, gat, resp,
                      UploadDialogs(m, upload_file(drv, loc2, row_path(m), rat,
                                                   row_ID(reg, m), resp, resp)))

\* the callback after update_row_inventory
AfterRowSheet(m, reg, drv, loc1, rat, gat, rows, resp) ==
  IF GridRaises(m, loc1) THEN Done(TRUE, loc1, drv, <<>>, <<>>)
  ELSE AfterSheets(m, reg, drv, update_grid_inventory(m, loc1, rows), rat, gat, resp)

\* the callback from the rows it is handed to the window it ends with
handle_add(m, reg, drv, loc, rat, gat, rows, resp) ==
  AfterRowSheet(m, reg, drv, update_row_inventory(m, loc, rows), rat, gat, rows, resp)

\* handle_remove is handle_add statement for statement
handle_remove(m, reg, drv, loc, rat, gat, rows, resp) ==
  handle_add(m, reg, drv, loc, rat, gat, rows, resp)

(***************************************************************************)
(* load_data: archive, download, read and clean.                           *)
(***************************************************************************)
\* auto_archive raises when make_archive_copies reaches its upload_file
\* call, which lacks the download_alter_time argument: that is when no
\* archive of this half-year exists and an inventory file is registered
ArchiveRaises(arch, reg) == arch = 0 /\ DOMAIN reg # {}

\* auto_archive: the archive folders of this half-year after the call
auto_archive(arch) == IF arch = 0 THEN 1 ELSE arch

Loaded(raised, loc, rows, rat, gat, dialogs) ==
  [raised |-> raised, local |-> loc, rows |-> rows, rat |-> rat, gat |-> gat,
   dialogs |-> dialogs]

\* load_data after the grid download returned g; r is what the row download
\* returned
GridDownloaded(m, loc2, rows, rat, d1, r, g) ==
  Loaded(FALSE, loc2, rows, rat,
         IF g.success THEN AlterTimeOf(r.info) ELSE Unset,
         d1 \o (IF g.success THEN <<>> ELSE <<Dialog(g.info, grid_id_key(m))>>))

\* load_data after clean_dataframe returned c
RowsCleaned(m, reg, drv, loc1, rat, d1, r, c, resp) ==
  IF ~c.ok THEN Loaded(TRUE, loc1, <<>>, rat, Unset, d1)
  ELSE IF row_ID(reg, m) = grid_ID(reg, m) \/ grid_id_key(m) = NoKey
  THEN Loaded(FALSE, loc1, c.df, rat, Unset, d1)
  ELSE GridDownloaded(m, download_local(drv, loc1, grid_ID(reg, m), grid_path(m), resp),
                      c.df, rat, d1, r, download_file(drv, grid_ID(reg, m), resp))

\* load_data after the row download returned r: create_df raises when the
\* local file is not there
RowDownloaded(m, reg, drv, loc1, rat, d1, r, resp) ==
  IF row_path(m) \notin DOMAIN loc1 THEN Loaded(TRUE, loc1, <<>>, rat, Unset, d1)
  ELSE RowsCleaned(m, reg, drv, loc1, rat, d1, r,
                   clean_dataframe(m, loc1[row_path(m)].details), resp)

RowDownload(m, reg, drv, loc, r, resp) ==
  RowDownloaded(m, reg, drv,
                download_local(drv, loc, row_ID(reg, m), row_path(m), resp),
                IF r.success THEN AlterTimeOf(r.info) ELSE Unset,
                IF r.success THEN <<>> ELSE <<Dialog(r.info, row_id_key(m))>>,
                r, resp)

\* load_data after auto_archive returned
load_data(m, reg, drv, loc, resp) ==
  RowDownload(m, reg, drv, loc, download_file(drv, row_ID(reg, m), resp), resp)

(***************************************************************************)
(* The sheets the remote files hold.                                       *)
(***************************************************************************)
\* a row as pd.read_excel gives it: numbers, text, an Excel date, and NaN
\* in the columns nobody fills
SheetRow(m, loc) ==
  [col \in Columns(m) |->
     IF col \in get_unused_columns(m) THEN NaN
     ELSE IF col = get_location_column(m) THEN loc
     ELSE IF col \in get_int_fields(m) THEN IntCell(1)
     ELSE IF col \in get_letter_nums(m) THEN StrCell(<<"A", "1">>)
     ELSE IF col = get_date_column(m) THEN TsCell(2025, 6, 30)
     ELSE StrCell(<<"x">>)]

FirstLocation(m) ==
  IF get_location_column(m) \in get_int_fields(m) THEN IntCell(1) ELSE StrCell(<<"A", "1">>)

SecondLocation(m) ==
  IF get_location_column(m) \in get_int_fields(m) THEN IntCell(2) ELSE StrCell(<<"B", "2">>)

\* a row whose integer columns hold 1.5
BrokenRow(m) ==
  [col \in Columns(m) |->
     IF col \in get_int_fields(m) THEN FloatCell(15) ELSE SheetRow(m, FirstLocation(m))[col]]

\* the "Details" sheets a remote row file starts with
InitTables(m) == {<<>>, <<SheetRow(m, FirstLocation(m))>>, <<BrokenRow(m)>>}

\* the "Details" sheet another user uploads
ExternalTable(m) == <<SheetRow(m, SecondLocation(m))>>

\* the identifiers of the remote files of a schema
RowFile == "row_file"
GridFile == "grid_file"
FileIds(m) == IF m = "CellDewar" THEN {RowFile, GridFile} ELSE {RowFile}

\* drive_ids.json: every key registered, no key registered, or the row key
\* registered with the identifier of a file that does not exist
Registered(m) ==
  [k \in {row_id_key(m), grid_id_key(m)} \ {NoKey} |->
     IF k = row_id_key(m) THEN RowFile ELSE GridFile]

Registries(m) ==
  {Registered(m),
   [k \in {} |-> "None"],
   [k \in DOMAIN Registered(m) |-> IF k = row_id_key(m) THEN "no_file" ELSE Registered(m)[k]]}

NoFiles == [p \in {} |-> Workbook(<<>>, <<>>)]

(***************************************************************************)
(* State.                                                                  *)
(***************************************************************************)
VARIABLES
  schema,          \* the manager the user opened
  pc,              \* "start", "menu" (main menu open), "fault" (load_data raised)
  rows_df,         \* self.rows_df
  cleaned_data,    \* dataAddWindows.cleaned_data
  row_alter_time,  \* self.row_alter_time
  grid_alter_time, \* self.grid_alter_time
  registry,        \* IDManager.ids
  drive,           \* the remote files
  local,           \* the local files
  archives,        \* archive folders of the current half-year
  ext,             \* modifications made by other users so far
  outcome,         \* how the last handler ended
  cl,              \* clean_dataframe on its own: the table and its results
  ret,             \* DriveManager on its own: the call just made and its result
  picker           \* PickerHelper on its own: the table, the boxes and what it found

vars == <<schema, pc, rows_df, cleaned_data, row_alter_time, grid_alter_time,
          registry, drive, local, archives, ext, outcome, cl, ret, picker>>

NoCleaned == [valid |-> FALSE, data |-> <<>>, locs |-> <<>>, hasLoc |-> FALSE, msg |-> NoMessage]

\* how the last handler ended: the handler, the entry boxes it read, the
\* way it ended, the message it showed, the rows before it, how the
\* callback ended ("none" when it was not called), the dialogs it showed
\* and the upload_file statements it began
Outcome(op, entries, res, msg, pre, callback, dialogs) ==
  [op |-> op, entries |-> entries, res |-> res, msg |-> msg, pre |-> pre,
   callback |-> callback, dialogs |-> dialogs, uploads |-> <<>>]

NoEntries == <<>>

NoOutcome == Outcome("none", NoEntries, "none", NoMessage, <<>>, "none", <<>>)

NoResult == [ok |-> FALSE, df |-> <<>>]

NoClean == [stage |-> "off", raw |-> <<>>, once |-> NoResult, twice |-> NoResult]

NoDrive == [id \in {} |-> [tok |-> 0, bytes |-> Workbook(<<>>, <<>>)]]

NoRegistry == [k \in {} |-> ""]

\* a call of DriveManager: the method, its arguments, what the store answered
\* to its requests, what it returned and the store before the call
Call(op, file_id, alter, answers, r, before) ==
  [op |-> op, file_id |-> file_id, alter |-> alter, answers |-> answers,
   success |-> r.success, info |-> r.info, before |-> before]

NoRet == Call("none", "None", Unset, <<>>, Ret(FALSE, "None"), NoDrive)

\* a PickerHelper: the columns of its table, the entry boxes it reads, how
\* _validate_and_extract ended ("raised", "refused" when it returned False,
\* "opened" when it returned True), filled_locations and the fields it warned
\* about
Picked(stage, columns, entries, r) ==
  [stage |-> stage, columns |-> columns, entries |-> entries, res |-> r.res,
   filled |-> r.filled, warned |-> r.warned]

NoExtract == [res |-> "none", filled |-> {}, warned |-> {}]

NoPicker == Picked("off", {}, NoEntries, NoExtract)

Init ==
  /\ schema \in Schemas
  /\ pc = "start"
  /\ rows_df = <<>>
  /\ cleaned_data = NoCleaned
  /\ row_alter_time = Unset
  /\ grid_alter_time = Unset
  /\ registry \in Registries(schema)
  /\ \E t \in InitTables(schema) :
       drive = [id \in FileIds(schema) |->
                  [tok |-> 1, bytes |-> Workbook(IF id = RowFile THEN t ELSE <<>>, <<>>)]]
  /\ local = NoFiles
  /\ archives \in {0, 1}
  /\ ext = 0
  /\ outcome = NoOutcome
  /\ cl = NoClean
  /\ ret = NoRet
  /\ picker = NoPicker

(***************************************************************************)
(* The session: one action per handler.                                    *)
(***************************************************************************)
\* what the store answers during a handler; "down" fails the folder query
\* auto_archive starts with
LoadResponses == Responses \cup {"down"}

\* the state after load_data ended with l
MenuOpened(l) ==
  /\ pc' = IF l.raised THEN "fault" ELSE "menu"
  /\ archives' = auto_archive(archives)
  /\ rows_df' = l.rows
  /\ row_alter_time' = l.rat
  /\ grid_alter_time' = l.gat
  /\ local' = l.local
  /\ outcome' = Outcome("load", NoEntries, IF l.raised THEN "raised" ELSE "loaded",
                        NoMessage, <<>>, "none", l.dialogs)

\* open_main_menu: load_data, then the main menu when it returned
OpenMainMenu ==
  /\ pc = "start"
  /\ \E resp \in LoadResponses :
       IF resp = "down"
       THEN /\ pc' = "fault"
            /\ outcome' = Outcome("load", NoEntries, "raised", NoMessage, <<>>, "none", <<>>)
            /\ UNCHANGED <<rows_df, row_alter_time, grid_alter_time, local, archives>>
       ELSE IF ArchiveRaises(archives, registry)
       THEN /\ pc' = "fault"
            /\ archives' = auto_archive(archives)
            /\ outcome' = Outcome("load", NoEntries, "raised", NoMessage, <<>>, "none", <<>>)
            /\ UNCHANGED <<rows_df, row_alter_time, grid_alter_time, local>>
       ELSE MenuOpened(load_data(schema, registry, drive, local, resp))
  /\ UNCHANGED <<schema, picker, cleaned_data, registry, drive, ext, cl, ret>>

\* the state after an accepted request whose callback ended with h
Committed(op, entries, e, h) ==
  /\ rows_df' = e.rows
  /\ cleaned_data' = e.cleaned
  /\ local' = h.local
  /\ drive' = h.drive
  /\ outcome' = [Outcome(op, entries, e.res, e.msg, rows_df,
                         IF h.raised THEN "raised" ELSE "returned", h.dialogs)
                    EXCEPT !.uploads = h.uploads]

\* the state after a request that was not accepted
Rejected(op, entries, e) ==
  /\ rows_df' = e.rows
  /\ cleaned_data' = e.cleaned
  /\ outcome' = Outcome(op, entries, e.res, e.msg, rows_df, "none", <<>>)
  /\ UNCHANGED <<local, drive>>

\* the state after a handler of the window ended with e
AfterHandler(op, entries, e, resp) ==
  IF e.res = "accepted"
  THEN Committed(op, entries, e,
                 IF op = "add"
                 THEN handle_add(schema, registry, drive, local, row_alter_time,
                                 grid_alter_time, e.rows, resp)
                 ELSE handle_remove(schema, registry, drive, local, row_alter_time,
                                    grid_alter_time, e.rows, resp))
  ELSE Rejected(op, entries, e)

\* a handler that ended with e, the confirmation popup being answered
\* confirm when it was shown
HandlerEnded(op, entries, e, confirm) ==
  /\ confirm \/ e.res = "cancelled"
  /\ Len(e.rows) <= MaxRows
  /\ \E resp \in (IF e.res = "accepted" THEN Responses ELSE {"ok"}) :
        AfterHandler(op, entries, e, resp)

\* the window waits for a request: no handler has run, or the one that ran
\* has returned and its message was closed
Idle == outcome.op \in {"none", "load"}

\* the "Add" button of the add window
AddData ==
  /\ pc = "menu"
  /\ Idle
  /\ \E entries \in FormsOf[schema], confirm \in BOOLEAN :
       HandlerEnded("add", entries, add_data(schema, rows_df, cleaned_data, entries, confirm), confirm)
  /\ UNCHANGED <<schema, picker, pc, row_alter_time, grid_alter_time, registry, archives,
                 ext, cl, ret>>

\* the "Remove" button of the remove window
RemoveData ==
  /\ pc = "menu"
  /\ Idle
  /\ \E entries \in FormsOf[schema], confirm \in BOOLEAN :
       HandlerEnded("remove", entries,
                    remove_data(schema, rows_df, cleaned_data, entries, confirm), confirm)
  /\ UNCHANGED <<schema, picker, pc, row_alter_time, grid_alter_time, registry, archives,
                 ext, cl, ret>>

\* the handler has returned and its message box was closed: the window waits
\* for the next request, self.rows_df and self.cleaned_data kept
Dismiss ==
  /\ pc = "menu"
  /\ outcome.op \in {"add", "remove"}
  /\ outcome' = NoOutcome
  /\ UNCHANGED <<schema, picker, pc, rows_df, cleaned_data, row_alter_time, grid_alter_time,
                 registry, drive, local, archives, ext, cl, ret>>

\* another user uploads a new version of the files
ExternalModify ==
  /\ pc \in {"start", "menu"}
  /\ ext < MaxExternal
  /\ ext' = ext + 1
  /\ drive' = [id \in DOMAIN drive |->
                 [tok |-> drive[id].tok + 1,
                  bytes |-> IF id = RowFile
                            THEN Workbook(ExternalTable(schema), ExternalTable(schema))
                            ELSE Workbook(<<>>, ExternalTable(schema))]]
  /\ UNCHANGED <<schema, picker, pc, rows_df, cleaned_data, row_alter_time, grid_alter_time,
                 registry, local, archives, outcome, cl, ret>>

\* the program is closed and started again; the temporary files are deleted
\* at exit
Restart ==
  /\ pc \in {"menu", "fault"}
  /\ pc' = "start"
  /\ rows_df' = <<>>
  /\ cleaned_data' = NoCleaned
  /\ row_alter_time' = Unset
  /\ grid_alter_time' = Unset
  /\ outcome' = NoOutcome
  /\ local' = NoFiles
  /\ UNCHANGED <<schema, picker, registry, drive, archives, ext, cl, ret>>

\* the menu is closed, no request having been made in it, and the button of
\* the inventory is clicked again in the same run of the program: a new
\* manager, the temporary files still there
Reopen ==
  /\ pc \in {"menu", "fault"}
  /\ outcome.op = "load"
  /\ pc' = "start"
  /\ rows_df' = <<>>
  /\ cleaned_data' = NoCleaned
  /\ row_alter_time' = Unset
  /\ grid_alter_time' = Unset
  /\ outcome' = NoOutcome
  /\ UNCHANGED <<schema, picker, registry, drive, local, archives, ext, cl, ret>>

Next ==
  OpenMainMenu \/ AddData \/ RemoveData \/ Dismiss \/ ExternalModify \/ Restart \/ Reopen

Spec == Init /\ [][Next]_vars

(***************************************************************************)
(* clean_dataframe on its own: a raw table is cleaned, and the result is   *)
(* cleaned again.                                                          *)
(***************************************************************************)
\* what a sheet cell may hold when read, by the kind of its column
RawIntCells ==
  {IntCell(1), IntCell(-1), FloatCell(20), FloatCell(15), NaN,
   StrCell(<<"x">>), StrCell(<<"2">>)}

RawLetterNumCells ==
  {StrCell(<<"A", "1">>), StrCell(<<" ", "b", "2", " ">>), StrCell(<<"1", "A">>),
   IntCell(1), NaN}

RawDateCells ==
  {TsCell(2025, 6, 30), TsCell(2025, 1, 2),
   StrCell(<<"0", "6", "/", "3", "0", "/", "2", "0", "2", "5">>),
   StrCell(<<"1", "/", "2", "/", "2", "5">>),
   StrCell(<<"3", "0", "/", "0", "6", "/", "2", "0", "2", "5">>),
   StrCell(<<"x">>), NaN}

RawOtherCells ==
  {StrCell(<<"x">>), StrCell(<<" ", "x", " ">>), StrCell(<<"n", "a", "n">>), NaN,
   IntCell(3), FloatCell(15)}

ColumnKind(m, col) ==
  IF col \in get_int_fields(m) THEN "int"
  ELSE IF col \in get_letter_nums(m) THEN "letter"
  ELSE IF col = get_date_column(m) THEN "date"
  ELSE "other"

\* a raw row: every column of one kind holds c, the others what a
\* well-kept sheet holds
RawRow(m, kind, c) ==
  [col \in Columns(m) |->
     IF ColumnKind(m, col) = kind THEN c ELSE SheetRow(m, FirstLocation(m))[col]]

RawRows(m) ==
  {RawRow(m, "int", c) : c \in RawIntCells}
  \cup {RawRow(m, "letter", c) : c \in RawLetterNumCells}
  \cup {RawRow(m, "date", c) : c \in RawDateCells}
  \cup {RawRow(m, "other", c) : c \in RawOtherCells}

\* the raw tables of at most MaxRawRows rows
RawTables(m) == UNION {[1..n -> RawRows(m)] : n \in 0..MaxRawRows}

InitClean ==
  /\ schema \in Schemas
  /\ pc = "clean"
  /\ cl \in {[stage |-> "raw", raw |-> t, once |-> NoResult, twice |-> NoResult] :
               t \in RawTables(schema)}
  /\ rows_df = <<>>
  /\ cleaned_data = NoCleaned
  /\ row_alter_time = Unset
  /\ grid_alter_time = Unset
  /\ registry = NoRegistry
  /\ drive = NoDrive
  /\ local = NoFiles
  /\ archives = 0
  /\ ext = 0
  /\ outcome = NoOutcome
  /\ ret = NoRet
  /\ picker = NoPicker

\* clean_dataframe(df) on the raw table
CleanOnce ==
  /\ cl.stage = "raw"
  /\ cl' = [cl EXCEPT !.stage = "once", !.once = clean_dataframe(schema, cl.raw)]
  /\ UNCHANGED <<schema, picker, pc, rows_df, cleaned_data, row_alter_time, grid_alter_time,
                 registry, drive, local, archives, ext, outcome, ret>>

\* clean_dataframe on the table the first call returned
CleanAgain ==
  /\ cl.stage = "once"
  /\ cl.once.ok
  /\ cl' = [cl EXCEPT !.stage = "twice", !.twice = clean_dataframe(schema, cl.once.df)]
  /\ UNCHANGED <<schema, picker, pc, rows_df, cleaned_data, row_alter_time, grid_alter_time,
                 registry, drive, local, archives, ext, outcome, ret>>

NextClean == CleanOnce \/ CleanAgain

SpecClean == InitClean /\ [][NextClean]_vars

(***************************************************************************)
(* DriveManager on its own: downloads and uploads of one remote file with  *)
(* any identifier and any download_alter_time, while other users modify    *)
(* the file.                                                               *)
(***************************************************************************)
\* the values a caller may hand over as download_alter_time
AlterTimes == {IsNone, SomeText} \cup {Token(t) : t \in 1..MaxToken}

\* the identifiers a caller may hand over: the file, no file, the empty
\* string, None
CallIds == {RowFile, "no_file", "", "None"}

\* the sheets the local copy and the remote file may hold
DriveTables == {<<>>, <<SheetRow(schema, FirstLocation(schema))>>, ExternalTable(schema)}

InitDrive ==
  /\ schema = "Freezer20"
  /\ pc = "drive"
  /\ drive = [id \in {RowFile} |-> [tok |-> 1, bytes |-> Workbook(<<>>, <<>>)]]
  /\ local = NoFiles
  /\ ret = NoRet
  /\ picker = NoPicker
  /\ ext = 0
  /\ rows_df = <<>>
  /\ cleaned_data = NoCleaned
  /\ row_alter_time = Unset
  /\ grid_alter_time = Unset
  /\ registry = NoRegistry
  /\ archives = 0
  /\ outcome = NoOutcome
  /\ cl = NoClean

\* download_file(file_id, row_path)
Download ==
  /\ \E file_id \in CallIds, resp \in Responses :
       /\ ret' = Call("download", file_id, Unset, <<resp>>,
                      download_file(drive, file_id, resp), drive)
       /\ local' = download_local(drive, local, file_id, row_path(schema), resp)
  /\ UNCHANGED <<schema, picker, pc, rows_df, cleaned_data, row_alter_time, grid_alter_time,
                 registry, drive, archives, ext, outcome, cl>>

\* upload_file(row_path, download_alter_time, file_id)
Upload ==
  /\ \E file_id \in CallIds, alter \in AlterTimes, respGet \in Responses, respPut \in Responses :
       /\ ret' = Call("upload", file_id, alter, <<respGet, respPut>>,
                      upload_file(drive, local, row_path(schema), alter, file_id, respGet, respPut),
                      drive)
       /\ drive' = upload_drive(drive, local, row_path(schema), alter, file_id, respGet, respPut)
       /\ drive'[RowFile].tok <= MaxToken
  /\ UNCHANGED <<schema, picker, pc, rows_df, cleaned_data, row_alter_time, grid_alter_time,
                 registry, local, archives, ext, outcome, cl>>

\* update_single_sheet(row_path, df, sheet): the local copy is rewritten
LocalWrite ==
  /\ \E t \in DriveTables : local' = update_row_inventory(schema, local, t)
  /\ ret' = NoRet
  /\ UNCHANGED <<schema, picker, pc, rows_df, cleaned_data, row_alter_time, grid_alter_time,
                 registry, drive, archives, ext, outcome, cl>>

\* another user uploads a new version of the file
OtherUpload ==
  /\ ext < MaxExternal
  /\ drive[RowFile].tok < MaxToken
  /\ ext' = ext + 1
  /\ drive' = [drive EXCEPT ![RowFile] =
                 [tok |-> @.tok + 1, bytes |-> Workbook(ExternalTable(schema), <<>>)]]
  /\ ret' = NoRet
  /\ UNCHANGED <<schema, picker, pc, rows_df, cleaned_data, row_alter_time, grid_alter_time,
                 registry, local, archives, outcome, cl>>

NextDrive == Download \/ Upload \/ LocalWrite \/ OtherUpload

SpecDrive == InitDrive /\ [][NextDrive]_vars

(***************************************************************************)
(* PickerHelper._validate_and_extract: the occupied locations shown by     *)
(* the picker.  columns is df.columns; the boxes read are those named by   *)
(* for_filled.                                                             *)
(***************************************************************************)
\* int(x) of a float held in tenths: towards zero
Trunc(tenths) == IF tenths >= 0 THEN tenths \div 10 ELSE 0 - ((0 - tenths) \div 10)

\* float(value) returns: the text is an integer or a decimal
ValueNumeric(t) == IsIntText(t) \/ IsDecimalText(t)

\* int(float(value))
ValueInt(t) ==
  IF IsIntText(t) THEN IntOfText(t) ELSE Trunc(to_numeric(StrCell(t)).i)

\* pd.to_numeric(col, errors='coerce').fillna(-1).astype(int) on one value
ColumnInt(c) ==
  CASE to_numeric(c).k = "int" -> to_numeric(c).i
    [] to_numeric(c).k = "float" -> Trunc(to_numeric(c).i)
    [] OTHER -> 0 - 1

\* the mask of one field on one value: numbers when float(value) returns,
\* else stripped text
FieldMask(c, t) ==
  IF ValueNumeric(t) THEN ColumnInt(c) = ValueInt(t)
  ELSE Strip(AsStr(c)) = Strip(t)

\* the fields of for_filled at which step 1 stops: no box (KeyError) or an
\* empty box (ValueError)
StopFields(m, entries) ==
  SelectSeq(get_for_filled(m),
            LAMBDA f : f \notin DOMAIN entries \/ Strip(entries[f]) = <<>>)

\* the rows every field of required_values that is a column lets through
MaskRows(m, columns, rows, entries) ==
  {r \in 1..Len(rows) :
     \A f \in Range(get_for_filled(m)) \cap columns :
        FieldMask(rows[r][f], Strip(entries[f]))}

\* set(df.loc[mask, location].dropna().astype(str).str.upper().str.strip())
FilledLocations(m, rows, mask) ==
  {Strip(Upper(AsStr(rows[r][get_location_column(m)]))) :
     r \in {x \in mask : ~IsNull(rows[x][get_location_column(m)])}}

Extracted(res, filled, warned) == [res |-> res, filled |-> filled, warned |-> warned]

validate_and_extract(m, columns, rows, entries) ==
  IF StopFields(m, entries) # <<>>
  THEN IF StopFields(m, entries)[1] \notin DOMAIN entries
       THEN Extracted("raised", {}, {})
       ELSE Extracted("refused", {}, {})
  ELSE IF get_location_column(m) \notin columns
  THEN Extracted("refused", {}, {})
  ELSE Extracted("opened",
                 FilledLocations(m, rows, MaskRows(m, columns, rows, entries)),
                 Range(get_for_filled(m)) \ columns)

(***************************************************************************)
(* The picker on its own (SpecPick): a cleaned table, with every column of *)
(* the schema or without the first container column, the entry boxes       *)
(* Configure_AddRemove_Window builds for it, and the "Pick" button.        *)
(***************************************************************************)
\* a sheet row whose last container cell cannot be read
UnreadRow(m) ==
  [col \in Columns(m) |->
     IF col = get_for_filled(m)[Len(get_for_filled(m))] THEN NaN
     ELSE SheetRow(m, SecondLocation(m))[col]]

PickSheets(m) ==
  UNION {[1..n -> {SheetRow(m, FirstLocation(m)), SheetRow(m, SecondLocation(m)),
                   UnreadRow(m)}] : n \in 0..MaxRows}

\* the headers: the whole header, or the header without the first container
PickColumns(m) == {Columns(m), Columns(m) \ {get_for_filled(m)[1]}}

\* table t with the columns cols only
Project(t, cols) == [r \in 1..Len(t) |-> [col \in cols |-> t[r][col]]]

\* texts typed into a container box
KeyTexts(m, f) ==
  IF f \in get_int_fields(m)
  THEN {<<"2">>, <<"-", "1">>, <<"1", ".", "5">>, <<" ">>}
  ELSE {<<"a", "1">>, <<"B", "2">>, <<"-", "1">>, <<" ">>}

\* the boxes of a table with the columns cols: the base texts, with at most
\* one container box changed
PickForms(m, cols) ==
  LET boxes == Range(EntryFields(m)) \cap cols
      base == [f \in boxes |-> BaseText(m, f)]
  IN {base} \cup UNION {{WithBox(base, f, t) : t \in KeyTexts(m, f)} :
                           f \in Range(get_for_filled(m)) \cap cols}

InitPick ==
  /\ schema \in Schemas
  /\ pc = "picker"
  /\ \E t \in PickSheets(schema), cols \in PickColumns(schema) :
       /\ rows_df = Project(clean_dataframe(schema, t).df, cols)
       /\ picker = Picked("closed", cols, NoEntries, NoExtract)
  /\ cleaned_data = NoCleaned
  /\ row_alter_time = Unset
  /\ grid_alter_time = Unset
  /\ registry = NoRegistry
  /\ drive = NoDrive
  /\ local = NoFiles
  /\ archives = 0
  /\ ext = 0
  /\ outcome = NoOutcome
  /\ cl = NoClean
  /\ ret = NoRet

\* the "Pick" button: PickerHelper(...) runs _validate_and_extract
Pick ==
  /\ picker.stage = "closed"
  /\ \E entries \in PickForms(schema, picker.columns) :
       picker' = Picked("picked", picker.columns, entries,
                        validate_and_extract(schema, picker.columns, rows_df, entries))
  /\ UNCHANGED <<schema, pc, rows_df, cleaned_data, row_alter_time, grid_alter_time,
                 registry, drive, local, archives, ext, outcome, cl, ret>>

\* the picker is closed
ClosePicker ==
  /\ picker.stage = "picked"
  /\ picker' = Picked("closed", picker.columns, NoEntries, NoExtract)
  /\ UNCHANGED <<schema, pc, rows_df, cleaned_data, row_alter_time, grid_alter_time,
                 registry, drive, local, archives, ext, outcome, cl, ret>>

NextPick == Pick \/ ClosePicker

SpecPick == InitPick /\ [][NextPick]_vars

(***************************************************************************)
(* Properties of clean_dataframe (under SpecClean).                        *)
(***************************************************************************)
\* the cells of the columns cols of a table, as a set
CellsOf(df, cols) == {df[r][col] : r \in 1..Len(df), col \in cols \cap Columns(schema)}

\* C8: normalization is idempotent: cleaning the table the first call
\* returned succeeds and returns that same table, cell for cell, in the
\* integer, letter-number, date and free-text columns alike
C8_CleanIdempotent ==
  cl.stage = "twice" => (cl.twice.ok /\ cl.twice.df = cl.once.df)

\* a raw table that cleaning changed has been cleaned twice
C8_Witness ==
  /\ cl.stage = "twice"
  /\ cl.raw # <<>>
  /\ cl.once.df # cl.raw
  /\ \E r \in 1..Len(cl.raw) : \E col \in Columns(schema) :
        ColumnKind(schema, col) = "date" /\ cl.raw[r][col].k = "str"
        /\ cl.once.df[r][col] # cl.raw[r][col] /\ cl.once.df[r][col].s # <<>>

\* C10: bulk cleaning never fails the load: the call returns for every raw
\* table, every cell of an integer column is then an integer (-1 for a
\* value that was missing or not convertible) and every cell of a
\* letter-number column is empty or an uppercase letter followed by digits
C10_CleanNeverFails ==
  cl.stage \in {"once", "twice"} =>
    /\ cl.once.ok
    /\ \A c \in CellsOf(cl.once.df, get_int_fields(schema)) : c.k = "int"
    /\ \A c \in CellsOf(cl.once.df, get_letter_nums(schema)) :
          c.k = "str" /\ (c.s = <<>> \/ (MatchLetterNum(c.s) /\ Upper(c.s) = c.s))

(***************************************************************************)
(* Properties of DriveManager (under SpecDrive).                           *)
(***************************************************************************)
\* the last call was an upload to a file the store holds
UploadedTo == ret.op = "upload" /\ ret.file_id \in DOMAIN ret.before

\* the token handed to the last upload is not the one the store held
TokenDiffers == ret.alter # Token(ret.before[ret.file_id].tok)

\* C2: stale-write rejection: an upload handed a token other than the
\* modifiedTime the store holds writes nothing (the file has the bytes and
\* the modifiedTime it had), and it returns STALE_FILE_ERROR unless the call
\* failed before the comparison (no local file, or the store refused the
\* read of modifiedTime)
C2_StaleWriteRejected ==
  (UploadedTo /\ TokenDiffers) =>
     /\ ~ret.success
     /\ drive[ret.file_id] = ret.before[ret.file_id]
     /\ ret.info \in {"STALE_FILE_ERROR", "ERROR", "PERMISSION_DENIED", "HTTP_ERROR"}
     /\ (ret.info # "STALE_FILE_ERROR" =>
           (row_path(schema) \notin DOMAIN local \/ ret.info \in {"PERMISSION_DENIED", "HTTP_ERROR"}))

\* an upload of a changed local copy was rejected as stale after another
\* user modified the file
C2_Witness ==
  /\ UploadedTo /\ TokenDiffers
  /\ ret.alter.st = "token"
  /\ ret.info = "STALE_FILE_ERROR"
  /\ ext > 0
  /\ row_path(schema) \in DOMAIN local
  /\ local[row_path(schema)] # drive[ret.file_id].bytes

\* ---------------------------------------------------------------------
\* Properties of the session (under Spec)
\* ---------------------------------------------------------------------

\* the fields of the composite spatial key
KeyFields(m) == Range(get_for_filled(m)) \cup {get_location_column(m)}

\* record r holds the place cand asks for: the same text, once trimmed, in
\* every field of the key
Occupies(m, r, cand) ==
  \A col \in KeyFields(m) : Strip(AsStr(r[col])) = Strip(AsStr(cand[col]))

NoDuplicateKeys(m, rows) ==
  \A i, j \in 1..Len(rows) : i # j => ~Occupies(m, rows[i], rows[j])

\* every box filled with a valid text
FormComplete(m, entries) ==
  /\ \A f \in DOMAIN entries : Strip(entries[f]) # <<>>
  /\ Validated(m, entries).valid
  /\ Validated(m, entries).hasLoc

\* the candidate records of a complete form, one per location typed
Requested(m, entries) == NewRows(m, Validated(m, entries))

\* the candidates whose place is taken in rows
Conflicting(m, rows, entries) ==
  SelectSeq(Requested(m, entries),
            LAMBDA c : \E i \in 1..Len(rows) : Occupies(m, rows[i], c))

\* record r matches the removal of location loc asked by a complete form
Removes(m, r, entries, loc) ==
  \A f \in Range(get_remove_fields(m)) :
     Strip(AsStr(r[f])) =
       Strip(AsStr(IF f = get_location_column(m) THEN loc
                   ELSE Validated(m, entries).data[f]))

\* the locations of a complete form that no record of rows matches
Unmatched(m, rows, entries) ==
  SelectSeq(Validated(m, entries).locs,
            LAMBDA loc : ~\E i \in 1..Len(rows) : Removes(m, rows[i], entries, loc))

\* the trimmed text of each cell
TextsOf(cells) == {Strip(AsStr(cells[i])) : i \in 1..Len(cells)}

\* the locations a message names
MessageLocations(msg) == Range(UserLocations(msg.text))

\* the same records, whatever their order
SameRows(a, b) ==
  /\ Len(a) = Len(b)
  /\ \A r \in Range(a) \cup Range(b) :
       Cardinality({i \in 1..Len(a) : a[i] = r}) = Cardinality({i \in 1..Len(b) : b[i] = r})

AddEnded == outcome.op = "add" /\ outcome.res # "cancelled"

\* C1: an accepted add to a table without two records on the same key
\* leaves a table without two records on the same key
C1_UniqueKeys ==
  (outcome.op = "add" /\ outcome.res = "accepted" /\ NoDuplicateKeys(schema, outcome.pre))
    => NoDuplicateKeys(schema, rows_df)

\* C3: the modification time kept after a successful download is the
\* version token the store held for that file when it was read, for the row
\* file and for the grid file, so that it is the one handed to upload
C3_TokenCaptured ==
  pc = "menu" =>
    /\ row_alter_time # Unset =>
         /\ row_alter_time.st = "token"
         /\ row_alter_time.tok \in 1..drive[row_ID(registry, schema)].tok
    /\ grid_alter_time # Unset =>
         /\ grid_alter_time.st = "token"
         /\ grid_alter_time.tok \in 1..drive[grid_ID(registry, schema)].tok

\* C4: an add leaves the table as it was, or appends one record per
\* location asked, all of them; it leaves the table as it was when the place
\* of a candidate is taken
C4_AddAtomic ==
  outcome.op = "add" =>
    /\ \/ rows_df = outcome.pre
       \/ /\ outcome.res = "accepted"
          /\ SameRows(rows_df, outcome.pre \o Requested(schema, outcome.entries))
    /\ (FormComplete(schema, outcome.entries)
          /\ Conflicting(schema, outcome.pre, outcome.entries) # <<>>)
         => rows_df = outcome.pre

\* a batch of two locations, one taken and one free, was rejected as a whole
C4_Witness ==
  /\ outcome.op = "add"
  /\ outcome.res = "conflict"
  /\ FormComplete(schema, outcome.entries)
  /\ Len(Requested(schema, outcome.entries)) = 2
  /\ Len(Conflicting(schema, outcome.pre, outcome.entries)) = 1
  /\ rows_df = outcome.pre

\* C5: a removal with a location that no record matches is rejected as a
\* whole, the table is unchanged, and the message lists the locations without
\* a match and no other
C5_RemoveAllOrNothing ==
  (outcome.op = "remove" /\ FormComplete(schema, outcome.entries)
     /\ Unmatched(schema, outcome.pre, outcome.entries) # <<>>)
    => /\ outcome.res = "conflict"
       /\ rows_df = outcome.pre
       /\ MessageLocations(outcome.msg)
            = TextsOf(Unmatched(schema, outcome.pre, outcome.entries))

\* C6: a confirmed add of a complete form is rejected as a conflict exactly
\* when the place of a candidate is taken, the message then naming every
\* location taken; otherwise it is accepted and its records are added
C6_ConflictIffMatch ==
  (AddEnded /\ FormComplete(schema, outcome.entries)) =>
    IF Conflicting(schema, outcome.pre, outcome.entries) # <<>>
    THEN /\ outcome.res = "conflict"
         /\ MessageLocations(outcome.msg)
              = TextsOf(LocationCells(schema,
                                      Conflicting(schema, outcome.pre, outcome.entries)))
    ELSE /\ outcome.res = "accepted"
         /\ SameRows(rows_df, outcome.pre \o Requested(schema, outcome.entries))

\* C7: in every schema an add whose place is taken and a removal that
\* matches no record end with the conflict message, not with an exception
C7_ExpectedNotThrown ==
  /\ (AddEnded /\ FormComplete(schema, outcome.entries)
        /\ Conflicting(schema, outcome.pre, outcome.entries) # <<>>)
       => (outcome.res = "conflict" /\ outcome.msg.kind = "occupied")
  /\ (outcome.op = "remove" /\ FormComplete(schema, outcome.entries)
        /\ Len(Unmatched(schema, outcome.pre, outcome.entries))
             = Len(Validated(schema, outcome.entries).locs))
       => (outcome.res = "conflict" /\ outcome.msg.kind = "absent")

\* C9: the table held after an accepted add or removal, written to the
\* sheet, read back and cleaned again, is the same table up to the order of
\* its rows
C9_RoundTrip ==
  (outcome.op \in {"add", "remove"} /\ outcome.res = "accepted") =>
    /\ clean_dataframe(schema, SheetOf(rows_df)).ok
    /\ SameRows(clean_dataframe(schema, SheetOf(rows_df)).df, rows_df)

\* the date box of the form the last handler read
DateEntry == outcome.entries[get_date_column(schema)]

\* validate_entries ran on a form that has a date box
DateValidated ==
  /\ outcome.op \in {"add", "remove"}
  /\ outcome.res \notin {"raised", "missing"}
  /\ get_date_column(schema) \in DOMAIN outcome.entries

\* a one-row sheet whose date column holds c
DateSheet(m, c) ==
  <<[col \in Columns(m) |->
       IF col = get_date_column(m) THEN c ELSE SheetRow(m, FirstLocation(m))[col]]>>

\* C11: a date that does not parse, 13/40/2024, makes validate_entries fail
\* with a message naming the date field and return no cleaned data, while
\* clean_dataframe turns the same value into the empty string without failing
C11_DateAsymmetric ==
  (DateValidated /\ DateEntry = BadDateText) =>
    /\ outcome.res = "invalid"
    /\ outcome.msg.kind = "invalid"
    /\ outcome.msg.fields = <<get_date_column(schema)>>
    /\ ~cleaned_data.valid
    /\ cleaned_data.data = <<>>
    /\ clean_dataframe(schema, DateSheet(schema, StrCell(DateEntry))).ok
    /\ clean_dataframe(schema, DateSheet(schema, StrCell(DateEntry))).df[1][get_date_column(schema)]
         = StrCell(<<>>)

\* an add with the date 13/40/2024 was refused by validate_entries
C11_Witness ==
  /\ DateValidated
  /\ outcome.op = "add"
  /\ DateEntry = BadDateText
  /\ outcome.res = "invalid"
  /\ rows_df = outcome.pre

\* C12: the date of a record added through the form is MM/DD/YYYY with a
\* four-digit year, the text clean_dataframe writes, so clean_dataframe
\* leaves it as it is
C12_DateCanonical ==
  (outcome.op = "add" /\ outcome.res = "accepted"
     /\ get_date_column(schema) \in DOMAIN outcome.entries) =>
    \A i \in 1..Len(Requested(schema, outcome.entries)) :
       LET d == Requested(schema, outcome.entries)[i][get_date_column(schema)]
       IN /\ d.k = "str"
          /\ Len(d.s) = 10
          /\ CleanDateCell(d) = d

\* the required fields of the window the last handler belongs to
RequiredOf(m, op) ==
  IF op = "add" THEN get_required_add_fields(m) ELSE get_required_remove_fields(m)

\* the required fields whose box holds nothing but spaces, in the order of
\* the list
MissingRequired(m, op, entries) ==
  SelectSeq(RequiredOf(m, op),
            LAMBDA f : f \in DOMAIN entries /\ Strip(entries[f]) = <<>>)

\* C13: a submission with required fields left empty is rejected by the
\* required-field check with one message naming every one of them, and
\* validate_entries runs only when no required field is empty
C13_RequiredFirst ==
  outcome.op \in {"add", "remove"} =>
    /\ MissingRequired(schema, outcome.op, outcome.entries) # <<>> =>
         /\ outcome.res = "missing"
         /\ outcome.msg.kind = "missing"
         /\ outcome.msg.fields = MissingRequired(schema, outcome.op, outcome.entries)
         /\ rows_df = outcome.pre
    /\ outcome.res \in {"invalid", "conflict", "cancelled", "accepted"} =>
         MissingRequired(schema, outcome.op, outcome.entries) = <<>>

\* the tokens typed into the location box
LocationTokens(m, entries) == UserLocations(Strip(entries[get_location_column(m)]))

\* token t obeys the rule of the location field
TokenObeys(m, t) ==
  IF get_location_column(m) \in get_int_fields(m) THEN IsIntText(t)
  ELSE IF get_location_column(m) \in get_letter_nums(m) THEN MatchLetterNum(t)
  ELSE TRUE

\* the tokens that break the rule, in the order typed
Offending(m, entries) ==
  SelectSeq(LocationTokens(m, entries), LAMBDA t : ~TokenObeys(m, t))

\* C14: when a token of the location box breaks the rule of the field,
\* integer or letter-number, validate_entries rejects the submission with a
\* message that names the location field and the offending token
C14_TokenNamed ==
  (outcome.op \in {"add", "remove"} /\ outcome.res \notin {"raised", "missing"}
     /\ Offending(schema, outcome.entries) # <<>>) =>
    /\ outcome.res = "invalid"
    /\ ~cleaned_data.valid
    /\ rows_df = outcome.pre
    /\ outcome.msg.fields = <<get_location_column(schema)>>
    /\ outcome.msg.text = Offending(schema, outcome.entries)[1]

(***************************************************************************)
(* Properties of the occupancy query (under SpecPick).                     *)
(***************************************************************************)
\* the constraints of the query: the container fields
Constraints == Range(get_for_filled(schema))

\* every constraint that has a box has a value
ConstraintsGiven ==
  \A f \in Constraints \cap DOMAIN picker.entries : Strip(picker.entries[f]) # <<>>

\* a cell or a text that reads as a number
NumericCell(c) == to_numeric(c).k \in {"int", "float"}

\* a record's cell c matches the value t: equal as integers when both read
\* as numbers, no match when only the value does, else equal as trimmed text
ConstraintMatches(c, t) ==
  IF ValueNumeric(t)
  THEN NumericCell(c) /\ ColumnInt(c) = ValueInt(t)
  ELSE Strip(AsStr(c)) = Strip(t)

\* the locations, upper case and trimmed, of the records matching every
\* constraint on a field in fields
OccupiedBy(fields) ==
  {Strip(Upper(AsStr(rows_df[r][get_location_column(schema)]))) :
     r \in {x \in 1..Len(rows_df) :
              /\ ~IsNull(rows_df[x][get_location_column(schema)])
              /\ \A f \in fields :
                    ConstraintMatches(rows_df[x][f], Strip(picker.entries[f]))}}

\* C15: a query with a constraint on a field that is not a column does not
\* raise; that constraint is ignored with a warning and the locations found
\* are those the other constraints give
C15_AbsentFieldIgnored ==
  (picker.stage = "picked" /\ ConstraintsGiven /\ Constraints \ picker.columns # {}) =>
    /\ picker.res = "opened"
    /\ picker.warned = Constraints \ picker.columns
    /\ picker.filled = OccupiedBy(Constraints \cap picker.columns)

\* C16: the query returns the distinct locations of the records that match
\* every constraint, a record whose field is not a number never matching a
\* value that is one
C16_OccupiedExact ==
  (picker.stage = "picked" /\ ConstraintsGiven /\ Constraints \subseteq picker.columns) =>
    /\ picker.res = "opened"
    /\ picker.filled = OccupiedBy(Constraints)

\* the locations asked of the add
AskedLocations ==
  {AsStr(FirstLocation(schema)), AsStr(SecondLocation(schema))}

\* C17: a location is in the occupied set of the query exactly when the add
\* of that location under the same container values is rejected as a conflict
C17_QueryDecidesAdd ==
  (picker.stage = "picked" /\ picker.columns = Columns(schema) /\ picker.res = "opened") =>
    \A L \in AskedLocations :
       (Strip(Upper(L)) \in picker.filled)
         <=> add_data(schema, rows_df, NoCleaned,
                      WithBox(picker.entries, get_location_column(schema), L),
                      TRUE).res = "conflict"

(***************************************************************************)
(* Further properties of the session (under Spec).                         *)
(***************************************************************************)
\* value a comes before value b: as integers, or as text
ValueBefore(a, b) ==
  IF a.k = "int" /\ b.k = "int" THEN a.i < b.i ELSE StrLess(AsStr(a), AsStr(b))

\* record r1 comes before record r2 in the order of the sort fields
RecordBefore(m, r1, r2) ==
  \E k \in 1..Len(get_sort_columns(m)) :
     /\ \A j \in 1..(k - 1) : r1[get_sort_columns(m)[j]] = r2[get_sort_columns(m)[j]]
     /\ ValueBefore(r1[get_sort_columns(m)[k]], r2[get_sort_columns(m)[k]])

Ordered(m, rows) ==
  \A i, j \in 1..Len(rows) : i < j => ~RecordBefore(m, rows[j], rows[i])

RemoveStep == pc = "menu" /\ ext' = ext /\ outcome'.op = "remove"

\* C19: a removal drops records and starts an upload only once the user
\* has confirmed it; when the user declines, and whenever the removal is not
\* applied, the table, the local files and the remote files are unchanged and
\* the callback is not called
C19_ConfirmBeforeRemove ==
  [][RemoveStep =>
       \/ outcome'.res = "accepted"
       \/ /\ rows_df' = rows_df
          /\ drive' = drive
          /\ local' = local
          /\ outcome'.callback = "none"]_vars

\* the user declined a removal whose locations all matched a record
C19_Witness ==
  /\ outcome.op = "remove"
  /\ outcome.res = "cancelled"
  /\ FormComplete(schema, outcome.entries)
  /\ Unmatched(schema, outcome.pre, outcome.entries) = <<>>
  /\ outcome.pre # <<>>
  /\ rows_df = outcome.pre

\* C20: the menu of a session is offered, with its table, only when the
\* download of the row file succeeded: a failed download never leaves a table
\* read from a local copy
C20_LoadedOnlyAfterDownload ==
  pc = "menu" => row_alter_time # Unset

(***************************************************************************)
(* Properties of DriveManager and of the callbacks that upload.            *)
(***************************************************************************)
\* C21: a successful upload returns the modifiedTime the remote file holds
\* after the write: what it returned, handed over as download_alter_time of
\* the next upload of the same file, is not stale
C21_UploadReturnsToken ==
  (ret.op = "upload" /\ ret.success) =>
     ~Stale(drive, ret.file_id, AlterTimeOf(ret.info))

\* what a download that was answered well returns, and what it returns for
\* each way of failing
DownloadAnswered ==
  /\ ret.success <=> /\ ~Falsy(ret.file_id)
                     /\ ret.file_id \in DOMAIN ret.before
                     /\ ret.answers[1] = "ok"
  /\ Falsy(ret.file_id) => ret.info = "MISSING_ID"
  /\ (~Falsy(ret.file_id) /\ ret.file_id \notin DOMAIN ret.before) => ret.info = "NOT_FOUND"
  /\ (~Falsy(ret.file_id) /\ ret.file_id \in DOMAIN ret.before) =>
       /\ ret.answers[1] = "403" => ret.info = "PERMISSION_DENIED"
       /\ ret.answers[1] = "500" => ret.info = "HTTP_ERROR"

\* C22: a download with an empty or unset identifier fails with MISSING_ID
\* whatever the store would answer, with NOT_FOUND when the file is not in the
\* store, with PERMISSION_DENIED on 403 and with the generic error on any
\* other failure, and a download that fails leaves the local files as they
\* were
C22_DownloadErrors ==
  [][ret'.op = "download" =>
       /\ DownloadAnswered'
       /\ ~ret'.success => local' = local]_vars

C22_Witness ==
  /\ ret.op = "download"
  /\ ret.info = "PERMISSION_DENIED"
  /\ row_path(schema) \notin DOMAIN local

\* an upload of an existing local copy that the store answered well
UploadAnswered ==
  /\ ret.op = "upload"
  /\ row_path(schema) \in DOMAIN local
  /\ ret.answers = <<"ok", "ok">>

\* C23: an upload without an identifier creates a new remote file holding the
\* local copy and returns its identifier; an upload with the identifier of a
\* remote file, its modifiedTime being the one handed over, rewrites that file
\* and returns the same identifier
C23_UploadCreatesOrUpdates ==
  UploadAnswered =>
    /\ ret.file_id = "None" =>
         /\ ret.success
         /\ ret.info \notin DOMAIN ret.before
         /\ ret.info \in DOMAIN drive
         /\ drive[ret.info].bytes = local[row_path(schema)]
    /\ (ret.file_id \in DOMAIN ret.before /\ ~Stale(ret.before, ret.file_id, ret.alter)) =>
         /\ ret.success
         /\ ret.info = ret.file_id
         /\ drive[ret.file_id].bytes = local[row_path(schema)]

(***************************************************************************)
(* The session while other users delete remote files.                      *)
(***************************************************************************)
\* another user deletes one of the remote files
ExternalDelete ==
  /\ pc \in {"start", "menu"}
  /\ ext < MaxExternal
  /\ ext' = ext + 1
  /\ \E gone \in DOMAIN drive : drive' = [id \in DOMAIN drive \ {gone} |-> drive[id]]
  /\ UNCHANGED <<schema, picker, pc, rows_df, cleaned_data, row_alter_time, grid_alter_time,
                 registry, local, archives, outcome, cl, ret>>

NextDeleted == OpenMainMenu \/ AddData \/ RemoveData \/ Dismiss \/ ExternalDelete

SpecDeleted == Init /\ [][NextDeleted]_vars

\* no file can be fetched with what the registry holds under key: nothing is
\* registered, or the store has no such file
Unreachable(key) ==
  Falsy(get_id(registry, key)) \/ get_id(registry, key) \notin DOMAIN drive

\* C24: whenever loading or a commit prompts for an identifier, the name the
\* prompt replaces is the name of a file that could not be found: the row name
\* for the row file, the grid name for the grid file
C24_PromptNamesFile ==
  \A i \in DOMAIN outcome.dialogs :
     outcome.dialogs[i].kind = "change_id" => Unreachable(outcome.dialogs[i].key)

(***************************************************************************)
(* DriveManager.auto_archive and make_archive_copies on their own: the     *)
(* folders under Inventories_Folder while the months pass.  Here archives  *)
(* holds the month of date.today() and the folders.                        *)
(***************************************************************************)
\* most folders under Inventories_Folder
MaxFolders == 3

\* the months date.today() passes through
Calendar ==
  <<[year |-> 2025, month |-> 6], [year |-> 2025, month |-> 7],
    [year |-> 2025, month |-> 12], [year |-> 2026, month |-> 1]>>

FolderKey == "Inventories_Folder"

\* a folder: how its name ends ("dated": MM_DD_YYYY of a date, "baddate":
\* digits of that shape that are no date, "other": anything else), the date
\* it ends with, who made it and the files it holds
Folder(name, date, by, files) == [name |-> name, date |-> date, by |-> by, files |-> files]

\* get_archive_dates raises ValueError when strptime meets a name whose
\* digits are no date
DatesRaise(folders) == \E i \in DOMAIN folders : folders[i].name = "baddate"

\* get_archive_dates: the dates of the folders whose names end with one
get_archive_dates(folders) ==
  {folders[i].date : i \in {j \in DOMAIN folders : folders[j].name = "dated"}}

\* 1 if current_date.month <= 6 else 2
half(d) == IF d.month <= 6 THEN 1 ELSE 2

\* the check of auto_archive with months compared instead of half-years
same_month_exists(archive_dates, current_date) ==
  \E d \in archive_dates : d.year = current_date.year /\ d.month = current_date.month

\* any((d.year == given_year) and (half of d == given_half) for d in archive_dates)
same_half_exists(archive_dates, current_date) ==
  \E d \in archive_dates : d.year = current_date.year /\ half(d) = half(current_date)

\* how make_archive_copies or auto_archive ended
Archiving(raised, folders, loc) == [raised |-> raised, folders |-> folders, local |-> loc]

\* make_archive_copies: the folder is created; then, for the first file of the
\* registry, the file is downloaded and the call of upload_file raises
\* TypeError, download_alter_time having no default and not being given
make_archive_copies(reg, drv, loc, folders, current_date, by, first, respCreate, respGet) ==
  IF respCreate # "ok" THEN Archiving(TRUE, folders, loc)
  ELSE IF DOMAIN reg \ {FolderKey} = {}
  THEN Archiving(FALSE, Append(folders, Folder("dated", current_date, by, {})), loc)
  ELSE Archiving(TRUE, Append(folders, Folder("dated", current_date, by, {})),
                 download_local(drv, loc, reg[first], first, respGet))

\* auto_archive
auto_archive_run(reg, drv, loc, folders, current_date, first, respList, respCreate, respGet) ==
  IF respList # "ok" \/ DatesRaise(folders) THEN Archiving(TRUE, folders, loc)
  ELSE IF same_half_exists(get_archive_dates(folders), current_date)
  THEN Archiving(FALSE, folders, loc)
  ELSE make_archive_copies(reg, drv, loc, folders, current_date, "auto", first,
                           respCreate, respGet)

\* a call that archives: the method, how it ended, the month and the folders
\* before it
Archived(op, raised, before) == [op |-> op, raised |-> raised, before |-> before]

\* the registries: the folder alone, with a file, with a file and the
\* identifier of a file that is not there
ArchiveRegistries ==
  {[k \in {FolderKey} |-> "folder"],
   [k \in {FolderKey, row_id_key("Freezer80")} |->
      IF k = FolderKey THEN "folder" ELSE RowFile],
   [k \in {FolderKey, row_id_key("Freezer80"), row_id_key("Freezer20")} |->
      IF k = FolderKey THEN "folder"
      ELSE IF k = row_id_key("Freezer80") THEN RowFile ELSE "no_file"]}

\* the folders somebody made by hand before the program runs
InitFolders ==
  {<<>>, <<Folder("other", Calendar[1], "user", {})>>,
   <<Folder("baddate", Calendar[1], "user", {})>>,
   <<Folder("dated", Calendar[2], "user", {})>>}

\* the key of the first item of get_all_ids() that is not the folder
FirstNames(reg) ==
  IF DOMAIN reg \ {FolderKey} = {} THEN {NoKey} ELSE DOMAIN reg \ {FolderKey}

InitArchive ==
  /\ schema = "Freezer80"
  /\ pc = "archive"
  /\ registry \in ArchiveRegistries
  /\ drive = [id \in {RowFile} |->
                [tok |-> 1, bytes |-> Workbook(<<SheetRow(schema, FirstLocation(schema))>>, <<>>)]]
  /\ local = NoFiles
  /\ \E f \in InitFolders : archives = [today |-> 1, folders |-> f]
  /\ ret = Archived("none", FALSE, [today |-> 1, folders |-> <<>>])
  /\ picker = NoPicker
  /\ ext = 0
  /\ rows_df = <<>>
  /\ cleaned_data = NoCleaned
  /\ row_alter_time = Unset
  /\ grid_alter_time = Unset
  /\ outcome = NoOutcome
  /\ cl = NoClean

\* the state after a call op that ended with r
ArchiveEnded(op, r) ==
  /\ Len(r.folders) <= MaxFolders
  /\ archives' = [archives EXCEPT !.folders = r.folders]
  /\ local' = r.local
  /\ ret' = Archived(op, r.raised, archives)

\* load_data calls auto_archive
AutoArchive ==
  /\ \E first \in FirstNames(registry), respList \in Responses,
        respCreate \in Responses, respGet \in Responses :
       ArchiveEnded("auto_archive",
                    auto_archive_run(registry, drive, local, archives.folders,
                                     Calendar[archives.today], first,
                                     respList, respCreate, respGet))
  /\ UNCHANGED <<schema, picker, pc, rows_df, cleaned_data, row_alter_time, grid_alter_time,
                 registry, drive, ext, outcome, cl>>

\* the "Archive" button: click_Archive calls make_archive_copies
ClickArchive ==
  /\ \E first \in FirstNames(registry), respCreate \in Responses, respGet \in Responses :
       ArchiveEnded("make_archive_copies",
                    make_archive_copies(registry, drive, local, archives.folders,
                                        Calendar[archives.today], "click", first,
                                        respCreate, respGet))
  /\ UNCHANGED <<schema, picker, pc, rows_df, cleaned_data, row_alter_time, grid_alter_time,
                 registry, drive, ext, outcome, cl>>

\* a month of the calendar ends
NextMonth ==
  /\ archives.today < Len(Calendar)
  /\ archives' = [archives EXCEPT !.today = @ + 1]
  /\ UNCHANGED <<schema, picker, pc, rows_df, cleaned_data, row_alter_time, grid_alter_time,
                 registry, drive, local, ext, outcome, cl, ret>>

NextArchive == AutoArchive \/ ClickArchive \/ NextMonth

SpecArchive == InitArchive /\ [][NextArchive]_vars

\* the folders auto_archive made that are dated in the year and half of d
AutoMade(folders, d) ==
  {i \in DOMAIN folders :
     /\ folders[i].by = "auto"
     /\ folders[i].date.year = d.year
     /\ half(folders[i].date) = half(d)}

\* folders holds a folder with a name dated in the year and half of d
DatedInHalf(folders, d) ==
  \E i \in DOMAIN folders :
     /\ folders[i].name = "dated"
     /\ folders[i].date.year = d.year
     /\ half(folders[i].date) = half(d)

\* C25: in every year and half auto_archive has made at most one folder, and
\* a run of auto_archive that finds a folder dated in the year and half of
\* today leaves the folders as they were
C25_OneArchivePerHalf ==
  /\ \A i \in DOMAIN Calendar :
        Cardinality(AutoMade(archives.folders, Calendar[i])) <= 1
  /\ (ret.op = "auto_archive"
        /\ DatedInHalf(ret.before.folders, Calendar[ret.before.today]))
       => archives.folders = ret.before.folders

C25_Witness ==
  /\ ret.op = "auto_archive"
  /\ AutoMade(ret.before.folders, Calendar[ret.before.today]) # {}
  /\ archives.folders = ret.before.folders
  /\ ~ret.raised

\* the last call made a folder
FolderMade ==
  /\ ret.op \in {"auto_archive", "make_archive_copies"}
  /\ Len(archives.folders) = Len(ret.before.folders) + 1

\* C26: the folder an archive run made, by auto_archive or by the "Archive"
\* button, holds a copy of every registered inventory file the store holds,
\* the folder entry of the registry left aside
C26_ArchiveHoldsEveryFile ==
  FolderMade =>
    \A k \in DOMAIN registry \ {FolderKey} :
       registry[k] \in DOMAIN drive =>
         \E f \in archives.folders[Len(archives.folders)].files :
            f.name = k /\ f.bytes = drive[registry[k]].bytes

(***************************************************************************)
(* The picker window (SpecSelect): PickerHelper for a -80 freezer box, the *)
(* rectangular picker whose rows and columns come from the box's "Box      *)
(* Dimensions", opened for an add or for a remove over a location box the  *)
(* user may have typed into.  A click on a button that is not selectable   *)
(* only shows a warning and leaves the picker as it is.                    *)
(***************************************************************************)
\* str.lower() on one character
LowChar(c) ==
  CASE c = "A" -> "a"
    [] c = "B" -> "b"
    [] c = "N" -> "n"
    [] c = "X" -> "x"
    [] c = "O" -> "o"
    [] c = "E" -> "e"
    [] OTHER -> c

\* str.lower()
Lower(s) == [i \in 1..Len(s) |-> LowChar(s[i])]

\* sorted(texts)
RECURSIVE Sorted(_)
Sorted(S) ==
  IF S = {} THEN <<>>
  ELSE LET least == CHOOSE s \in S : \A t \in S \ {s} : StrLess(s, t)
       IN <<least>> \o Sorted(S \ {least})

\* the rows of the table get_box_dimensions keeps: every container box is
\* compared as text
BoxRows(m, rows, entries) ==
  {r \in 1..Len(rows) :
     \A f \in Range(get_for_filled(m)) :
        Strip(AsStr(rows[r][f])) = Strip(entries[f])}

\* get_box_dimensions: (rows, cols) of the first row of the box, (0, 0)
\* when there is none or its "Box Dimensions" does not read as "rrxcc"
get_box_dimensions(m, rows, entries) ==
  IF BoxRows(m, rows, entries) = {} THEN <<0, 0>>
  ELSE LET first == CHOOSE r \in BoxRows(m, rows, entries) :
                       \A x \in BoxRows(m, rows, entries) : r <= x
           d == rows[first]["Box Dimensions"]
       IN IF d.k # "str" \/ "x" \notin Range(d.s) THEN <<0, 0>>
          ELSE LET parts == Split(Lower(d.s), "x")
               IN IF Len(parts) # 2 \/ \E i \in 1..Len(parts) : ~IsIntText(parts[i])
                  THEN <<0, 0>>
                  ELSE <<IntOfText(parts[1]), IntOfText(parts[2])>>

\* chr(ord('A') + i), for the rows a box of the model has
RowLetters == <<"A", "B">>

\* the buttons of the grid: f"{row_letter}{col_num}"
rloc_buttons(grid_coords) ==
  {<<RowLetters[r]>> \o StrOfNat(c) : r \in 1..grid_coords[1], c \in 1..grid_coords[2]}

\* set(loc.strip().upper() for loc in existing.split(",") if loc.strip())
ExistingLocations(existing) ==
  IF existing = <<>> THEN {}
  ELSE {Upper(Strip(t)) : t \in {x \in Range(Split(existing, ",")) : Strip(x) # <<>>}}

\* the buttons _toggle is bound to and _select_all selects: the empty cells
\* when adding, the filled cells when removing
valid_coords(adding, filled, buttons) ==
  {c \in buttons : IF adding THEN c \notin filled ELSE c \in filled}

\* a PickerHelper and its window
Window(stage, adding, entries, filled, buttons, selected) ==
  [stage |-> stage, adding |-> adding, entries |-> entries, filled |-> filled,
   buttons |-> buttons, selected |-> selected]

\* _create_picker: the typed locations become the selection, and a typed
\* location is dropped from it while its button is built as not selectable
create_picker(m, rows, adding, entries, filled) ==
  LET grid_coords == get_box_dimensions(m, rows, entries)
      typed == ExistingLocations(entries[get_location_column(m)])
      buttons == rloc_buttons(grid_coords)
  IN IF grid_coords[1] = 0
     THEN Window("invalid", adding, entries, filled, {}, {})
     ELSE Window("open", adding, entries, filled, buttons,
                 typed \ (buttons \ valid_coords(adding, filled, buttons)))

\* PickerHelper(...): _validate_and_extract, then the rectangular picker
PickerHelper(m, rows, adding, entries) ==
  LET r == validate_and_extract(m, Columns(m), rows, entries)
  IN IF r.res = "opened"
     THEN create_picker(m, rows, adding, entries, r.filled)
     ELSE Window(r.res, adding, entries, {}, {}, {})

\* _toggle(cell, btn)
toggle(selected, cell) ==
  IF cell \in selected THEN selected \ {cell} ELSE selected \cup {cell}

\* _select_all
select_all(adding, filled, buttons, selected) ==
  IF buttons = {} THEN selected
  ELSE IF valid_coords(adding, filled, buttons) \subseteq selected
  THEN selected \ valid_coords(adding, filled, buttons)
  ELSE selected \cup valid_coords(adding, filled, buttons)

\* _finish_selection(int_type_location=False): the text put into the box
finish_selection(selected) == Join(Sorted(selected))

\* the boxes a -80 freezer can have
BoxDimensions == {<<"1", "x", "2">>, <<"2", "x", "2">>}

\* the vial positions its records can have
VialPositions == {<<"A", "1">>, <<"B", "2">>, <<"E", "1">>}

\* a record of the box at vial position loc, the box being of dimensions d
BoxRow(m, loc, d) ==
  [SheetRow(m, StrCell(loc)) EXCEPT !["Box Dimensions"] = StrCell(d)]

SelectSheets(m) ==
  UNION {[1..n -> {BoxRow(m, loc, d) : loc \in VialPositions, d \in BoxDimensions}] :
           n \in 0..MaxRows}

\* what the location box holds when the picker is opened
TypedLocations ==
  {<<>>, <<"a", "1">>, <<"E", "1">>, <<"B", "2", ",", " ", "e", "1">>, <<" ", "b", "1">>}

InitSelect ==
  /\ schema = "Freezer80"
  /\ pc = "select"
  /\ \E t \in SelectSheets(schema) : rows_df = clean_dataframe(schema, t).df
  /\ \E adding \in BOOLEAN, text \in TypedLocations :
       picker = Window("closed", adding,
                       WithBox(BaseForm(schema), get_location_column(schema), text),
                       {}, {}, {})
  /\ cleaned_data = NoCleaned
  /\ row_alter_time = Unset
  /\ grid_alter_time = Unset
  /\ registry = NoRegistry
  /\ drive = NoDrive
  /\ local = NoFiles
  /\ archives = 0
  /\ ext = 0
  /\ outcome = NoOutcome
  /\ cl = NoClean
  /\ ret = NoRet

\* the "Pick" button of the add / remove window
OpenPicker ==
  /\ picker.stage # "open"
  /\ picker' = PickerHelper(schema, rows_df, picker.adding, picker.entries)
  /\ UNCHANGED <<schema, pc, rows_df, cleaned_data, row_alter_time, grid_alter_time,
                 registry, drive, local, archives, ext, outcome, cl, ret>>

\* a click on a selectable button
Toggle ==
  /\ picker.stage = "open"
  /\ \E cell \in valid_coords(picker.adding, picker.filled, picker.buttons) :
       picker' = [picker EXCEPT !.selected = toggle(picker.selected, cell)]
  /\ UNCHANGED <<schema, pc, rows_df, cleaned_data, row_alter_time, grid_alter_time,
                 registry, drive, local, archives, ext, outcome, cl, ret>>

\* the "Select/Deselect All" button
SelectAll ==
  /\ picker.stage = "open"
  /\ picker' = [picker EXCEPT !.selected =
                  select_all(picker.adding, picker.filled, picker.buttons,
                             picker.selected)]
  /\ UNCHANGED <<schema, pc, rows_df, cleaned_data, row_alter_time, grid_alter_time,
                 registry, drive, local, archives, ext, outcome, cl, ret>>

\* the "Done" button
PickerDone ==
  /\ picker.stage = "open"
  /\ picker' = [picker EXCEPT
                  !.stage = "done",
                  !.entries = WithBox(picker.entries, get_location_column(schema),
                                      finish_selection(picker.selected))]
  /\ UNCHANGED <<schema, pc, rows_df, cleaned_data, row_alter_time, grid_alter_time,
                 registry, drive, local, archives, ext, outcome, cl, ret>>

NextSelect == OpenPicker \/ Toggle \/ SelectAll \/ PickerDone

SpecSelect == InitSelect /\ [][NextSelect]_vars

(***************************************************************************)
(* Properties of the picker window (under SpecSelect).                     *)
(***************************************************************************)
\* the locations the "Done" button wrote into the location box
WrittenBack == ExistingLocations(picker.entries[get_location_column(schema)])

\* C27: whatever was typed, toggled and selected, the locations written back
\* to the location box hold no occupied location when adding and no empty
\* location when removing
C27_WrittenBackSelectable ==
  picker.stage = "done" =>
    IF picker.adding THEN WrittenBack \cap picker.filled = {}
    ELSE WrittenBack \subseteq picker.filled

(***************************************************************************)
(* Properties of the uploads of a commit (under Spec).                     *)
(***************************************************************************)
\* the dialogs of the last handler that tell of an upload that failed
FailureDialogs ==
  {i \in DOMAIN outcome.dialogs :
     outcome.dialogs[i].kind \in {"stale", "change_id", "denied", "failed"}}

\* the step is the first request of a loaded session that is committed, no
\* other user having written to the store
FirstCommit ==
  /\ pc = "menu"
  /\ outcome.op = "load"
  /\ ext = 0
  /\ outcome'.op \in {"add", "remove"}
  /\ outcome'.res = "accepted"

\* C28: when nobody else wrote to the remote file since the session's
\* download, the upload of the first committed add or remove is not rejected
\* as stale: it succeeds and the remote row file holds the bytes of the
\* workbook written from the new table
C28_FirstUploadNotStale ==
  [][FirstCommit =>
       /\ \A i \in DOMAIN outcome'.dialogs : outcome'.dialogs[i].kind # "stale"
       /\ row_ID(registry, schema) \in DOMAIN drive'
       /\ drive'[row_ID(registry, schema)].bytes = local'[row_path(schema)]]_vars

\* C29: the "changes have been saved" window is shown after a committed add
\* or remove only when no upload of that commit failed
C29_SavedOnlyAfterSuccess ==
  (outcome.op \in {"add", "remove"}
     /\ \E i \in DOMAIN outcome.dialogs : outcome.dialogs[i] = SavedDialog)
    => FailureDialogs = {}

\* C30: for the grid dewar, which has no grid file, and for the -80 and -20
\* freezers, whose grid is a sheet of the row file, a committed add or remove
\* of a loaded session uploads the row file once, begins no upload of a
\* grid file and runs to its end
C30_OneUploadPerCommit ==
  (schema \in {"GridDewar", "Freezer80", "Freezer20"}
     /\ outcome.op \in {"add", "remove"}
     /\ outcome.res = "accepted"
     /\ row_alter_time # Unset)
    => /\ outcome.uploads = <<"row">>
       /\ outcome.callback = "returned"

====
